---------------------------- MODULE Spec2Model ----------------------------
(***************************************************************************)
(* A model of bufio (bcoin-org/bufio): the numeric codec of                *)
(* lib/encoding.js, the BufferReader of lib/reader.js and the StaticWriter *)
(* of lib/staticwriter.js.                                                 *)
(*                                                                         *)
(* JavaScript numbers that hold integers are modelled exactly, as a sign   *)
(* and a little-endian sequence of base-256 digits (TLC's own integers     *)
(* stop at 2^31-1, the codec works up to 2^53-1 and beyond).  Byte         *)
(* buffers are sequences of 0..255; the JavaScript index i of a buffer is  *)
(* position i+1 of its sequence.                                           *)
(***************************************************************************)
EXTENDS Integers, Sequences, FiniteSets, TLC

(***************************************************************************)
(* Exact integer arithmetic for JavaScript numbers                         *)
(***************************************************************************)

\* A magnitude without leading (most significant) zero digits.
RECURSIVE Trim(_)
Trim(m) ==
  IF m = <<>> THEN m
  ELSE IF m[Len(m)] = 0 THEN Trim(SubSeq(m, 1, Len(m) - 1)) ELSE m

\* The magnitude of a natural number below 2^31.
RECURSIVE MagOf(_)
MagOf(n) == IF n = 0 THEN <<>> ELSE <<n % 256>> \o MagOf(n \div 256)

\* The JavaScript number with sign neg and magnitude m; there is one zero.
Mk(neg, m) == [neg |-> (neg /\ Trim(m) # <<>>), mag |-> Trim(m)]

\* A numeric literal of the source (|i| < 2^31).
N(i) == [neg |-> i < 0, mag |-> MagOf(IF i < 0 THEN -i ELSE i)]

\* The value of a number known to lie within TLC's integers.
RECURSIVE MagVal(_)
MagVal(m) == IF m = <<>> THEN 0 ELSE m[1] + 256 * MagVal(Tail(m))

AsInt(a) == IF a.neg THEN -MagVal(a.mag) ELSE MagVal(a.mag)

\* The lowest digit of a magnitude and the digits above it.
Low(m) == IF m = <<>> THEN 0 ELSE m[1]

High(m) == IF m = <<>> THEN m ELSE Tail(m)

\* -1, 0, 1 as magnitude a is below, equal to, above magnitude b.
RECURSIVE MagCmp(_, _)
MagCmp(a, b) ==
  IF Len(a) # Len(b) THEN (IF Len(a) < Len(b) THEN -1 ELSE 1)
  ELSE IF a = <<>> THEN 0
  ELSE IF a[Len(a)] # b[Len(b)] THEN (IF a[Len(a)] < b[Len(b)] THEN -1 ELSE 1)
  ELSE MagCmp(SubSeq(a, 1, Len(a) - 1), SubSeq(b, 1, Len(b) - 1))

\* a + b + c for magnitudes a, b and a carry c.
RECURSIVE MagAdd(_, _, _)
MagAdd(a, b, c) ==
  IF a = <<>> /\ b = <<>> THEN (IF c = 0 THEN <<>> ELSE <<c>>)
  ELSE <<(Low(a) + Low(b) + c) % 256>>
       \o MagAdd(High(a), High(b), (Low(a) + Low(b) + c) \div 256)

\* a - b - c for magnitudes a >= b and a borrow c.
RECURSIVE MagSub(_, _, _)
MagSub(a, b, c) ==
  IF a = <<>> THEN <<>>
  ELSE <<(a[1] - Low(b) - c) % 256>>
       \o MagSub(Tail(a), High(b), IF a[1] - Low(b) - c < 0 THEN 1 ELSE 0)

\* a * k + c for a magnitude a and naturals k, c below 2^22.
RECURSIVE MagScale(_, _, _)
MagScale(a, k, c) ==
  IF a = <<>> THEN MagOf(c)
  ELSE <<(a[1] * k + c) % 256>> \o MagScale(Tail(a), k, (a[1] * k + c) \div 256)

RECURSIVE MagMul(_, _)
MagMul(a, b) ==
  IF b = <<>> THEN <<>>
  ELSE MagAdd(MagScale(a, b[1], 0), <<0>> \o MagMul(a, Tail(b)), 0)

\* Long division of magnitude a by a natural k below 2^22, from digit i
\* down: the quotient digits q found so far and the running remainder r.
RECURSIVE MagDivStep(_, _, _, _, _)
MagDivStep(a, k, i, q, r) ==
  IF i = 0 THEN [q |-> q, r |-> r]
  ELSE MagDivStep(a, k, i - 1, <<(r * 256 + a[i]) \div k>> \o q,
                  (r * 256 + a[i]) % k)

MagDivMod(a, k) == MagDivStep(a, k, Len(a), <<>>, 0)

Neg(a) == Mk(~a.neg, a.mag)

Add(a, b) ==
  IF a.neg = b.neg THEN Mk(a.neg, MagAdd(a.mag, b.mag, 0))
  ELSE IF MagCmp(a.mag, b.mag) >= 0 THEN Mk(a.neg, MagSub(a.mag, b.mag, 0))
  ELSE Mk(b.neg, MagSub(b.mag, a.mag, 0))

Sub(a, b) == Add(a, Neg(b))

Mul(a, b) == Mk(a.neg # b.neg, MagMul(a.mag, b.mag))

Lt(a, b) ==
  IF a.neg # b.neg THEN a.neg
  ELSE IF a.neg THEN MagCmp(a.mag, b.mag) > 0 ELSE MagCmp(a.mag, b.mag) < 0

Le(a, b) == a = b \/ Lt(a, b)

\* 2 ** k.
Pow2(k) ==
  [neg |-> FALSE,
   mag |-> [i \in 1..(k \div 8 + 1) |-> IF i = k \div 8 + 1 THEN 2 ^ (k % 8) ELSE 0]]

\* The sum of a sequence of numbers (a chain of JavaScript +).
RECURSIVE Sum(_)
Sum(s) == IF s = <<>> THEN N(0) ELSE Add(s[1], Sum(Tail(s)))

\* The n low digits of a magnitude.
Digits(m, n) == [i \in 1..n |-> IF i <= Len(m) THEN m[i] ELSE 0]

\* The n low base-256 digits of the two's complement of a: a modulo 256^n.
Wrap(a, n) ==
  IF ~a.neg \/ Trim(Digits(a.mag, n)) = <<>> THEN Digits(a.mag, n)
  ELSE SubSeq(MagSub(Pow2(8 * n).mag, Digits(a.mag, n), 0), 1, n)

\* ECMAScript ToUint32, ToInt32 and the store conversion of a Uint8Array.
ToUint32(a) == Mk(FALSE, Wrap(a, 4))

Signed32(d) ==
  IF d[4] >= 128 THEN Mk(TRUE, MagSub(<<0, 0, 0, 0, 1>>, d, 0)) ELSE Mk(FALSE, d)

ToInt32(a) == Signed32(Wrap(a, 4))

ToUint8(a) == Wrap(a, 1)[1]

\* The integer part of a * 2 ** -k, which is what ToInt32 and ToUint32 keep
\* of it.
Trunc(a, k) ==
  Mk(a.neg, MagDivMod(SubSeq(a.mag, k \div 8 + 1, Len(a.mag)), 2 ^ (k % 8)).q)

\* Math.floor(a * 2 ** -k).
Floor(a, k) ==
  IF a.neg /\ Mul(Trunc(a, k), Pow2(k)) # a
  THEN Sub(Trunc(a, k), N(1)) ELSE Trunc(a, k)

\* The bitwise operators of JavaScript, on the 32-bit patterns of their operands.
RECURSIVE And8(_, _)
And8(x, y) ==
  IF x = 0 \/ y = 0 THEN 0
  ELSE (x % 2) * (y % 2) + 2 * And8(x \div 2, y \div 2)

Or8(x, y) == x + y - And8(x, y)

BitAnd(a, b) == Signed32([i \in 1..4 |-> And8(Wrap(a, 4)[i], Wrap(b, 4)[i])])

BitOr(a, b) == Signed32([i \in 1..4 |-> Or8(Wrap(a, 4)[i], Wrap(b, 4)[i])])

BitNot(a) == Signed32([i \in 1..4 |-> 255 - Wrap(a, 4)[i]])

\* a << k, a >> k and a >>> k.
Shl(a, k) == ToInt32(Mul(ToUint32(a), Pow2(k)))

Shr(a, k) == Floor(ToInt32(a), k)

UShr(a, k) == Trunc(ToUint32(a), k)

\* a % k for a natural k below 2^22: the sign of the result is that of a.
Mod(a, k) == Mk(a.neg, MagOf(MagDivMod(a.mag, k).r))

\* a / k where k divides a.
Div(a, k) == Mk(a.neg, MagDivMod(a.mag, k).q)

(***************************************************************************)
(* Buffers                                                                 *)
(***************************************************************************)

\* data[i] as a number (i a valid index).
Get(data, i) == N(data[i + 1])

\* dst[i] = v: the store keeps v modulo 256; an index outside the buffer
\* stores nothing.
Put(dst, i, v) ==
  IF i >= 0 /\ i < Len(dst) THEN [dst EXCEPT ![i + 1] = ToUint8(v)] ELSE dst

(***************************************************************************)
(* lib/encoding.js: errors                                                 *)
(***************************************************************************)

\* An error that keeps the reason and has the offset 0.
EncodingErrorAtZero(offset, reason) ==
  [type |-> "EncodingError", offset |-> 0, reason |-> reason]

\* new EncodingError(offset, reason): the error keeps both arguments.
EncodingError(offset, reason) ==
  [type |-> "EncodingError", offset |-> offset, reason |-> reason]

\* Whether a result is a thrown error rather than a returned value.
IsErr(r) == "type" \in DOMAIN r

Done == [done |-> TRUE]

\* The statement e followed by the value v: an error thrown by e is the
\* outcome.
Then(e, v) == IF IsErr(e) THEN e ELSE v

checkNothing(value, offset) == Done

check(value, offset) ==
  IF ~value THEN EncodingError(offset, "Out of bounds read") ELSE Done

enforce(value, offset, reason) ==
  IF ~value THEN EncodingError(offset, reason) ELSE Done

\* 0xffe00000 and 2^53-1 (Number.MAX_SAFE_INTEGER).
HighBits == [neg |-> FALSE, mag |-> <<0, 0, 224, 255>>]

MAX_SAFE_INTEGER == [neg |-> FALSE, mag |-> <<255, 255, 255, 255, 255, 255, 31>>]

isSafe(hi, lo) ==
  BitAnd(IF Lt(hi, N(0))
         THEN (IF lo = N(0) THEN Add(BitNot(hi), N(1)) ELSE BitNot(hi))
         ELSE hi, HighBits) = N(0)

(***************************************************************************)
(* lib/encoding.js: fixed-width reads                                      *)
(***************************************************************************)

readU8(data, off) == Get(data, off)

readU16(data, off) ==
  Sum(<<Get(data, off), Mul(Get(data, off + 1), Pow2(8))>>)

readU24(data, off) ==
  Sum(<<Get(data, off), Mul(Get(data, off + 1), Pow2(8)),
        Mul(Get(data, off + 2), Pow2(16))>>)

readU32(data, off) ==
  Sum(<<Get(data, off), Mul(Get(data, off + 1), Pow2(8)),
        Mul(Get(data, off + 2), Pow2(16)), Mul(Get(data, off + 3), Pow2(24))>>)

readU40(data, off) ==
  Sum(<<Get(data, off), Mul(Get(data, off + 1), Pow2(8)),
        Mul(Get(data, off + 2), Pow2(16)), Mul(Get(data, off + 3), Pow2(24)),
        Mul(Get(data, off + 4), Pow2(32))>>)

readU48(data, off) ==
  Sum(<<Get(data, off), Mul(Get(data, off + 1), Pow2(8)),
        Mul(Get(data, off + 2), Pow2(16)), Mul(Get(data, off + 3), Pow2(24)),
        Mul(Add(Get(data, off + 4), Mul(Get(data, off + 5), Pow2(8))), Pow2(32))>>)

\* The unsigned join without the check of the high word.
joinUnchecked(hi, lo, off) == Add(Mul(hi, Pow2(32)), lo)

\* The tail of the unsigned 56-bit and 64-bit reads: the check of the high
\* word and hi * 0x100000000 + lo.
join(hi, lo, off) ==
  Then(enforce(BitAnd(hi, HighBits) = N(0), off, "Number exceeds 2^53-1"),
       Add(Mul(hi, Pow2(32)), lo))

readU56(data, off) == join(readU24(data, off + 4), readU32(data, off), off)

readU64(data, off) == join(readU32(data, off + 4), readU32(data, off), off)

readU(data, off, len) ==
  CASE len = 8 -> readU64(data, off)
    [] len = 7 -> readU56(data, off)
    [] len = 6 -> readU48(data, off)
    [] len = 5 -> readU40(data, off)
    [] len = 4 -> readU32(data, off)
    [] len = 3 -> readU24(data, off)
    [] len = 2 -> readU16(data, off)
    [] len = 1 -> readU8(data, off)
    [] OTHER -> EncodingError(off, "Invalid read length")

readU16BE(data, off) ==
  Sum(<<Mul(Get(data, off), Pow2(8)), Get(data, off + 1)>>)

readU24BE(data, off) ==
  Sum(<<Mul(Get(data, off), Pow2(16)), Mul(Get(data, off + 1), Pow2(8)),
        Get(data, off + 2)>>)

readU32BE(data, off) ==
  Sum(<<Mul(Get(data, off), Pow2(24)), Mul(Get(data, off + 1), Pow2(16)),
        Mul(Get(data, off + 2), Pow2(8)), Get(data, off + 3)>>)

readU40BE(data, off) ==
  Sum(<<Mul(Get(data, off), Pow2(32)), Mul(Get(data, off + 1), Pow2(24)),
        Mul(Get(data, off + 2), Pow2(16)), Mul(Get(data, off + 3), Pow2(8)),
        Get(data, off + 4)>>)

readU48BE(data, off) ==
  Sum(<<Mul(Add(Mul(Get(data, off), Pow2(8)), Get(data, off + 1)), Pow2(32)),
        Mul(Get(data, off + 2), Pow2(24)), Mul(Get(data, off + 3), Pow2(16)),
        Mul(Get(data, off + 4), Pow2(8)), Get(data, off + 5)>>)

readU56BE(data, off) == join(readU24BE(data, off), readU32BE(data, off + 3), off)

readU64BE(data, off) == join(readU32BE(data, off), readU32BE(data, off + 4), off)

readUBE(data, off, len) ==
  CASE len = 8 -> readU64BE(data, off)
    [] len = 7 -> readU56BE(data, off)
    [] len = 6 -> readU48BE(data, off)
    [] len = 5 -> readU40BE(data, off)
    [] len = 4 -> readU32BE(data, off)
    [] len = 3 -> readU24BE(data, off)
    [] len = 2 -> readU16BE(data, off)
    [] len = 1 -> readU8(data, off)
    [] OTHER -> EncodingError(off, "Invalid read length")

\* val | (val & 2 ** bit) * k: the sign extension of the signed reads, with
\* k = 0x1fffffe, 0x1fffe and 0x1fe for bit 7, 15 and 23.
extendNothing(val, bit, k) == val

extend(val, bit, k) == BitOr(val, Mul(BitAnd(val, Pow2(bit)), N(k)))

readI8(data, off) == extend(Get(data, off), 7, 33554430)

readI16(data, off) ==
  extend(Add(Get(data, off), Mul(Get(data, off + 1), Pow2(8))), 15, 131070)

readI24(data, off) ==
  extend(Sum(<<Get(data, off), Mul(Get(data, off + 1), Pow2(8)),
               Mul(Get(data, off + 2), Pow2(16))>>), 23, 510)

readI32(data, off) ==
  Sum(<<Get(data, off), Mul(Get(data, off + 1), Pow2(8)),
        Mul(Get(data, off + 2), Pow2(16)), Shl(Get(data, off + 3), 24)>>)

readI40(data, off) ==
  Sum(<<Mul(extend(Get(data, off + 4), 7, 33554430), Pow2(32)),
        Get(data, off), Mul(Get(data, off + 1), Pow2(8)),
        Mul(Get(data, off + 2), Pow2(16)), Mul(Get(data, off + 3), Pow2(24))>>)

readI48(data, off) ==
  Sum(<<Mul(extend(Add(Get(data, off + 4), Mul(Get(data, off + 5), Pow2(8))),
                   15, 131070), Pow2(32)),
        Get(data, off), Mul(Get(data, off + 1), Pow2(8)),
        Mul(Get(data, off + 2), Pow2(16)), Mul(Get(data, off + 3), Pow2(24))>>)

\* The tail of the signed 56-bit and 64-bit reads.  enforce is called with
\* two arguments: the reason is passed where the offset belongs and the
\* reason itself is left undefined.
joinI(hi, lo) ==
  Then(enforce(isSafe(hi, lo), "Number exceeds 2^53-1", "undefined"),
       Add(Mul(hi, Pow2(32)), lo))

readI56(data, off) == joinI(readI24(data, off + 4), readU32(data, off))

readI64(data, off) == joinI(readI32(data, off + 4), readU32(data, off))

readI(data, off, len) ==
  CASE len = 8 -> readI64(data, off)
    [] len = 7 -> readI56(data, off)
    [] len = 6 -> readI48(data, off)
    [] len = 5 -> readI40(data, off)
    [] len = 4 -> readI32(data, off)
    [] len = 3 -> readI24(data, off)
    [] len = 2 -> readI16(data, off)
    [] len = 1 -> readI8(data, off)
    [] OTHER -> EncodingError(off, "Invalid read length")

readI16BE(data, off) ==
  extend(Add(Mul(Get(data, off), Pow2(8)), Get(data, off + 1)), 15, 131070)

readI24BE(data, off) ==
  extend(Sum(<<Mul(Get(data, off), Pow2(16)), Mul(Get(data, off + 1), Pow2(8)),
               Get(data, off + 2)>>), 23, 510)

readI32BE(data, off) ==
  Sum(<<Shl(Get(data, off), 24), Mul(Get(data, off + 1), Pow2(16)),
        Mul(Get(data, off + 2), Pow2(8)), Get(data, off + 3)>>)

readI40BE(data, off) ==
  Sum(<<Mul(extend(Get(data, off), 7, 33554430), Pow2(32)),
        Mul(Get(data, off + 1), Pow2(24)), Mul(Get(data, off + 2), Pow2(16)),
        Mul(Get(data, off + 3), Pow2(8)), Get(data, off + 4)>>)

readI48BE(data, off) ==
  Sum(<<Mul(extend(Add(Get(data, off + 1), Mul(Get(data, off), Pow2(8))),
                   15, 131070), Pow2(32)),
        Mul(Get(data, off + 2), Pow2(24)), Mul(Get(data, off + 3), Pow2(16)),
        Mul(Get(data, off + 4), Pow2(8)), Get(data, off + 5)>>)

readI56BE(data, off) == joinI(readI24BE(data, off), readU32BE(data, off + 3))

readI64BE(data, off) == joinI(readI32BE(data, off), readU32BE(data, off + 4))

readIBE(data, off, len) ==
  CASE len = 8 -> readI64BE(data, off)
    [] len = 7 -> readI56BE(data, off)
    [] len = 6 -> readI48BE(data, off)
    [] len = 5 -> readI40BE(data, off)
    [] len = 4 -> readI32BE(data, off)
    [] len = 3 -> readI24BE(data, off)
    [] len = 2 -> readI16BE(data, off)
    [] len = 1 -> readI8(data, off)
    [] OTHER -> EncodingError(off, "Invalid read length")

(***************************************************************************)
(* lib/encoding.js: fixed-width writes.  A write returns the buffer it     *)
(* leaves and the offset it returns.  The stores dst[off++] = num with     *)
(* num = num >>> 8 between them are nested, the first store innermost.     *)
(***************************************************************************)

Wrote(dst, off) == [dst |-> dst, off |-> off]

writeU8(dst, num, off) == Wrote(Put(dst, off, num), off + 1)

writeU16(dst, num, off) ==
  Wrote(Put(Put(dst, off, num), off + 1, UShr(num, 8)), off + 2)

writeU24(dst, num, off) ==
  Wrote(Put(Put(Put(dst, off, num), off + 1, UShr(num, 8)),
            off + 2, UShr(UShr(num, 8), 8)), off + 3)

writeU32(dst, num, off) ==
  Wrote(Put(Put(Put(Put(dst, off, num), off + 1, UShr(num, 8)),
                off + 2, UShr(UShr(num, 8), 8)),
            off + 3, UShr(UShr(UShr(num, 8), 8), 8)), off + 4)

\* The first four stores are those of writeU32.
writeU40(dst, num, off) ==
  Wrote(Put(writeU32(dst, num, off).dst, off + 4, Floor(num, 32)), off + 5)

writeU48(dst, num, off) ==
  Wrote(Put(Put(writeU32(dst, num, off).dst, off + 4, Floor(num, 32)),
            off + 5, UShr(Floor(num, 32), 8)), off + 6)

writeU16BE(dst, num, off) ==
  Wrote(Put(Put(dst, off, UShr(num, 8)), off + 1, num), off + 2)

writeU24BE(dst, num, off) ==
  Wrote(Put(Put(Put(dst, off + 2, num), off + 1, UShr(num, 8)),
            off, UShr(UShr(num, 8), 8)), off + 3)

writeU32BE(dst, num, off) ==
  Wrote(Put(Put(Put(Put(dst, off + 3, num), off + 2, UShr(num, 8)),
                off + 1, UShr(UShr(num, 8), 8)),
            off, UShr(UShr(UShr(num, 8), 8), 8)), off + 4)

\* After the leading stores, the four stores are those of writeU32BE.
writeU40BE(dst, num, off) ==
  writeU32BE(Put(dst, off, Floor(num, 32)), num, off + 1)

writeU48BE(dst, num, off) ==
  writeU32BE(Put(Put(dst, off, UShr(Floor(num, 32), 8)), off + 1, Floor(num, 32)),
             num, off + 2)

writeI8(dst, num, off) == writeU8(dst, num, off)

writeI16(dst, num, off) == writeU16(dst, num, off)

writeI16BE(dst, num, off) == writeU16BE(dst, num, off)

writeI24(dst, num, off) == writeU24(dst, num, off)

writeI32(dst, num, off) == writeU32(dst, num, off)

writeI24BE(dst, num, off) == writeU24BE(dst, num, off)

writeI32BE(dst, num, off) == writeU32BE(dst, num, off)

\* The negation of the two words without the carry into hi when lo is 0.
negateNoCarry(neg, hi, lo) ==
  IF ~neg THEN [hi |-> hi, lo |-> lo]
  ELSE [hi |-> BitNot(hi), lo |-> Add(BitNot(lo), N(1))]

\* The head of write64 and write56: the two 32-bit words hi and lo of num.
\* negate is the branch taken when num was negative.
negate(neg, hi, lo) ==
  IF ~neg THEN [hi |-> hi, lo |-> lo]
  ELSE IF lo = N(0) THEN [hi |-> BitOr(Add(BitNot(hi), N(1)), N(0)), lo |-> lo]
  ELSE [hi |-> BitNot(hi), lo |-> Add(BitNot(lo), N(1))]

Words(num) ==
  negate(Lt(num, N(0)),
         BitOr(Trunc(IF Lt(num, N(0)) THEN Neg(num) ELSE num, 32), N(0)),
         BitOr(IF Lt(num, N(0)) THEN Neg(num) ELSE num, N(0)))

\* first is the first of the two writes of a word, whose returned offset
\* the second starts from.
write64(dst, num, off, be) ==
  LET lo(first, w) == writeI32BE(first.dst, w.lo, first.off)
      hi(first, w) == writeI32(first.dst, w.hi, first.off)
      words(w) == IF be THEN lo(writeI32BE(dst, w.hi, off), w)
                  ELSE hi(writeI32(dst, w.lo, off), w)
  IN words(Words(num))

write56(dst, num, off, be) ==
  LET lo(first, w) == writeI32BE(first.dst, w.lo, first.off)
      hi(first, w) == writeI24(first.dst, w.hi, first.off)
      words(w) == IF be THEN lo(writeI24BE(dst, w.hi, off), w)
                  ELSE hi(writeI32(dst, w.lo, off), w)
  IN words(Words(num))

writeU56(dst, num, off) == write56(dst, num, off, FALSE)

writeU64(dst, num, off) == write64(dst, num, off, FALSE)

writeU56BE(dst, num, off) == write56(dst, num, off, TRUE)

writeU64BE(dst, num, off) == write64(dst, num, off, TRUE)

writeI64(dst, num, off) == writeU64(dst, num, off)

writeI64BE(dst, num, off) == writeU64BE(dst, num, off)

writeU(dst, num, off, len) ==
  CASE len = 8 -> writeU64(dst, num, off)
    [] len = 7 -> writeU56(dst, num, off)
    [] len = 6 -> writeU48(dst, num, off)
    [] len = 5 -> writeU40(dst, num, off)
    [] len = 4 -> writeU32(dst, num, off)
    [] len = 3 -> writeU24(dst, num, off)
    [] len = 2 -> writeU16(dst, num, off)
    [] len = 1 -> writeU8(dst, num, off)
    [] OTHER -> EncodingError(off, "Invalid write length")

writeUBE(dst, num, off, len) ==
  CASE len = 8 -> writeU64BE(dst, num, off)
    [] len = 7 -> writeU56BE(dst, num, off)
    [] len = 6 -> writeU48BE(dst, num, off)
    [] len = 5 -> writeU40BE(dst, num, off)
    [] len = 4 -> writeU32BE(dst, num, off)
    [] len = 3 -> writeU24BE(dst, num, off)
    [] len = 2 -> writeU16BE(dst, num, off)
    [] len = 1 -> writeU8(dst, num, off)
    [] OTHER -> EncodingError(off, "Invalid write length")

\* As in the source: length 4 goes to writeU24 and length 3 to writeU32.
writeI(dst, num, off, len) ==
  CASE len = 8 -> writeU64(dst, num, off)
    [] len = 7 -> writeU56(dst, num, off)
    [] len = 6 -> writeU48(dst, num, off)
    [] len = 5 -> writeU40(dst, num, off)
    [] len = 4 -> writeU24(dst, num, off)
    [] len = 3 -> writeU32(dst, num, off)
    [] len = 2 -> writeU16(dst, num, off)
    [] len = 1 -> writeU8(dst, num, off)
    [] OTHER -> EncodingError(off, "Invalid write length")

writeIBE(dst, num, off, len) ==
  CASE len = 8 -> writeU64BE(dst, num, off)
    [] len = 7 -> writeU56BE(dst, num, off)
    [] len = 6 -> writeU48BE(dst, num, off)
    [] len = 5 -> writeU40BE(dst, num, off)
    [] len = 4 -> writeU32BE(dst, num, off)
    [] len = 3 -> writeU24BE(dst, num, off)
    [] len = 2 -> writeU16BE(dst, num, off)
    [] len = 1 -> writeU8(dst, num, off)
    [] OTHER -> EncodingError(off, "Invalid write length")

(***************************************************************************)
(* lib/encoding.js: varints                                                *)
(***************************************************************************)

Varint(size, value) == [size |-> size, value |-> value]

\* The tail of a case of readVarint without the enforced condition.
sizedUnchecked(size, value, canonical, off) == Then(value, Varint(size, value))

\* The tail of a case of readVarint: value was read (the read may have
\* thrown), canonical is the condition enforced on it.
sized(size, value, canonical, off) ==
  Then(value, Then(enforce(canonical, off, "Non-canonical varint"),
                   Varint(size, value)))

readVarint(data, off) ==
  Then(check(off < Len(data), off),
       CASE data[off + 1] = 255 ->
              Then(check(off + 9 <= Len(data), off),
                   sized(9, readU64(data, off + 1),
                         Lt(Sub(Pow2(32), N(1)), readU64(data, off + 1)), off))
         [] data[off + 1] = 254 ->
              Then(check(off + 5 <= Len(data), off),
                   sized(5, readU32(data, off + 1),
                         Lt(N(65535), readU32(data, off + 1)), off))
         [] data[off + 1] = 253 ->
              Then(check(off + 3 <= Len(data), off),
                   sized(3, BitOr(Get(data, off + 1), Shl(Get(data, off + 2), 8)),
                         Le(N(253), BitOr(Get(data, off + 1),
                                          Shl(Get(data, off + 2), 8))), off))
         [] OTHER -> Varint(1, Get(data, off)))

writeVarint(dst, num, off) ==
  IF Lt(num, N(253))
  THEN Wrote(Put(dst, off, BitAnd(num, N(255))), off + 1)
  ELSE IF Le(num, N(65535))
  THEN Wrote(Put(Put(Put(dst, off, N(253)), off + 1, BitAnd(num, N(255))),
                 off + 2, BitAnd(Shr(num, 8), N(255))), off + 3)
  ELSE IF Le(num, Sub(Pow2(32), N(1)))
  THEN Wrote(Put(Put(Put(Put(Put(dst, off, N(254)),
                             off + 1, BitAnd(num, N(255))),
                         off + 2, BitAnd(Shr(num, 8), N(255))),
                     off + 3, BitAnd(Shr(num, 16), N(255))),
                 off + 4, UShr(num, 24)), off + 5)
  ELSE writeU64(Put(dst, off, N(255)), num, off + 1)

\* sizeVarint with the bounds 0xffff and 0xffffffff excluded.
sizeVarintStrict(num) ==
  IF Lt(num, N(253)) THEN 1
  ELSE IF Lt(num, N(65535)) THEN 3
  ELSE IF Lt(num, Sub(Pow2(32), N(1))) THEN 5
  ELSE 9

sizeVarint(num) ==
  IF Lt(num, N(253)) THEN 1
  ELSE IF Le(num, N(65535)) THEN 3
  ELSE IF Le(num, Sub(Pow2(32), N(1))) THEN 5
  ELSE 9

\* 0x3fffffffffff, the bound of the accumulator of readVarint2.
VarintBound == [neg |-> FALSE, mag |-> <<255, 255, 255, 255, 255, 63>>]

\* One turn of the loop of readVarint2 after ch = data[off++] and
\* size += 1: off and size are the incremented ones.
RECURSIVE readVarint2Loop(_, _, _, _)
\* The turn with (num << 7) | (ch & 0x7f) alone: no num += 1 after a byte
\* that has the continuation bit.
readVarint2TurnPlain(data, off, num, size, ch) ==
  Then(enforce(Le(num, Sub(VarintBound, BitAnd(ch, N(127)))), off,
               "Number exceeds 2^53-1"),
       IF BitAnd(ch, N(128)) = N(0)
       THEN Varint(size, Add(Mul(num, N(128)), BitAnd(ch, N(127))))
       ELSE readVarint2Loop(data, off, Add(Mul(num, N(128)), BitAnd(ch, N(127))), size))

\* The turn without the bound on num before the seven bits are added.
readVarint2TurnUnbounded(data, off, num, size, ch) ==
  IF BitAnd(ch, N(128)) = N(0)
  THEN Varint(size, Add(Mul(num, N(128)), BitAnd(ch, N(127))))
  ELSE Then(enforce(Add(Mul(num, N(128)), BitAnd(ch, N(127))) # MAX_SAFE_INTEGER,
                    off, "Number exceeds 2^53-1"),
            readVarint2Loop(data, off,
                            Add(Add(Mul(num, N(128)), BitAnd(ch, N(127))), N(1)),
                            size))

readVarint2Turn(data, off, num, size, ch) ==
  Then(enforce(Le(num, Sub(VarintBound, BitAnd(ch, N(127)))), off,
               "Number exceeds 2^53-1"),
       IF BitAnd(ch, N(128)) = N(0)
       THEN Varint(size, Add(Mul(num, N(128)), BitAnd(ch, N(127))))
       ELSE Then(enforce(Add(Mul(num, N(128)), BitAnd(ch, N(127))) # MAX_SAFE_INTEGER,
                         off, "Number exceeds 2^53-1"),
                 readVarint2Loop(data, off,
                                 Add(Add(Mul(num, N(128)), BitAnd(ch, N(127))), N(1)),
                                 size)))

\* The loop of readVarint2 from the state (off, num, size).
readVarint2Loop(data, off, num, size) ==
  Then(check(off < Len(data), off),
       readVarint2Turn(data, off + 1, num, size + 1, Get(data, off)))

readVarint2(data, off) == readVarint2Loop(data, off, N(0), 0)

\* The first loop of writeVarint2 from the state (num, len, tmp): the
\* bytes it leaves in tmp, least significant group first.
RECURSIVE writeVarint2Loop(_, _, _)
writeVarint2Loop(num, len, tmp) ==
  IF Le(num, N(127))
  THEN Append(tmp, BitOr(BitAnd(num, N(127)), IF len # 0 THEN N(128) ELSE N(0)))
  ELSE writeVarint2Loop(
         Sub(Div(Sub(num, Mod(num, 128)), 128), N(1)), len + 1,
         Append(tmp, BitOr(BitAnd(num, N(127)), IF len # 0 THEN N(128) ELSE N(0))))

\* The second loop of writeVarint2: tmp[len], tmp[len - 1], ..., tmp[0].
RECURSIVE writeVarint2Emit(_, _, _, _)
writeVarint2Emit(dst, off, tmp, len) ==
  IF len = 0 THEN Wrote(Put(dst, off, tmp[len + 1]), off + 1)
  ELSE writeVarint2Emit(Put(dst, off, tmp[len + 1]), off + 1, tmp, len - 1)

\* len is one less than the number of bytes in tmp.
writeVarint2(dst, num, off) ==
  Then(check(off + Len(writeVarint2Loop(num, 0, <<>>)) <= Len(dst), off),
       writeVarint2Emit(dst, off, writeVarint2Loop(num, 0, <<>>),
                        Len(writeVarint2Loop(num, 0, <<>>)) - 1))

RECURSIVE sizeVarint2Loop(_, _)
sizeVarint2Loop(num, size) ==
  IF Le(num, N(127)) THEN size + 1
  ELSE sizeVarint2Loop(Sub(Div(Sub(num, Mod(num, 128)), 128), N(1)), size + 1)

sizeVarint2(num) == sizeVarint2Loop(num, 0)

(***************************************************************************)
(* The codec under call: a buffer, the number handed to the writes, and    *)
(* the calls made on the buffer so far, each with the buffer it found and  *)
(* what it returned or threw.  data, offset, stack and zeroCopy are the    *)
(* fields of a BufferReader or a StaticWriter, when one is in play.        *)
(***************************************************************************)
VARIABLES dst, num, calls, data, offset, stack, zeroCopy

vars == <<dst, num, calls, data, offset, stack, zeroCopy>>

\* How far the sampled numbers lie from a power of two, the offsets the
\* calls are made at, and the bytes a fresh buffer is filled with.
MaxDelta == 1
MaxOff == 1
SafeBits == 53
WordBits == 64

Widths == 1..8

Fills == {255}

\* The integers within MaxDelta of a power of two, of either sign, up to
\* the magnitude 2^53-1.
SampleNums ==
  LET near == {Add(Pow2(e), N(d)) : e \in 0..SafeBits, d \in (-MaxDelta)..MaxDelta}
      mags == {m \in near : Le(N(0), m) /\ Le(m, MAX_SAFE_INTEGER)}
  IN mags \cup {Neg(m) : m \in mags}

\* Fresh buffers, as Buffer.alloc(size, fill) makes them: room for the
\* widest write at every offset, and one byte more.
Blank(fill) == [i \in 1..(MaxOff + 9) |-> fill]

\* Eight-byte inputs of the reads: the 64-bit patterns within MaxDelta of
\* a power of two, and their two's complements.
SampleBufs ==
  LET near == {Add(Pow2(e), N(d)) : e \in 0..(WordBits - 1), d \in (-MaxDelta)..MaxDelta}
  IN {Wrap(m, 8) : m \in near} \cup {Wrap(Neg(m), 8) : m \in near}

WriteFns == {"writeU", "writeUBE", "writeI", "writeIBE", "writeU64", "writeI64"}

ReadFns == {"readU", "readUBE", "readI", "readIBE", "readU64", "readI64"}

VarintWriteFns == {"writeVarint", "writeVarint2"}

VarintReadFns == {"readVarint", "readVarint2"}

\* The reader that matches a writer.
Matching(fn) ==
  CASE fn = "writeU" -> "readU"
    [] fn = "writeUBE" -> "readUBE"
    [] fn = "writeI" -> "readI"
    [] fn = "writeIBE" -> "readIBE"
    [] fn = "writeU64" -> "readU64"
    [] fn = "writeI64" -> "readI64"
    [] fn = "writeVarint" -> "readVarint"
    [] fn = "writeVarint2" -> "readVarint2"

CallWrite(fn, d, v, off, len) ==
  CASE fn = "writeU" -> writeU(d, v, off, len)
    [] fn = "writeUBE" -> writeUBE(d, v, off, len)
    [] fn = "writeI" -> writeI(d, v, off, len)
    [] fn = "writeIBE" -> writeIBE(d, v, off, len)
    [] fn = "writeU64" -> writeU64(d, v, off)
    [] fn = "writeI64" -> writeI64(d, v, off)
    [] fn = "writeVarint" -> writeVarint(d, v, off)
    [] fn = "writeVarint2" -> writeVarint2(d, v, off)

CallRead(fn, d, off, len) ==
  CASE fn = "readU" -> readU(d, off, len)
    [] fn = "readUBE" -> readUBE(d, off, len)
    [] fn = "readI" -> readI(d, off, len)
    [] fn = "readIBE" -> readIBE(d, off, len)
    [] fn = "readU64" -> readU64(d, off)
    [] fn = "readI64" -> readI64(d, off)
    [] fn = "readVarint" -> readVarint(d, off)
    [] fn = "readVarint2" -> readVarint2(d, off)

\* A call made: its arguments, the buffer it was given, and what it
\* returned or threw.
Call(fn, off, len, in, ret, threw) ==
  [fn |-> fn, off |-> off, len |-> len, in |-> in, ret |-> ret, threw |-> threw]

\* No number: the buffer is there to be decoded.
NoNum == [none |-> TRUE]

\* No reader and no writer is in play while the codec is called directly.
NoObject ==
  data = <<>> /\ offset = 0 /\ stack = <<>> /\ zeroCopy = FALSE

\* A number to encode into a fresh buffer, or eight bytes to decode.
InitCodec ==
  /\ calls = <<>>
  /\ NoObject
  /\ \/ dst \in {Blank(f) : f \in Fills} /\ num \in SampleNums
     \/ dst \in SampleBufs /\ num = NoNum

\* A write of num on the untouched buffer: w is what the write returns or
\* throws.
Write(fn, off, len) ==
  LET wrote(w) ==
        /\ dst' = IF IsErr(w) THEN dst ELSE w.dst
        /\ calls' = <<Call(fn, off, len, dst, IF IsErr(w) THEN w ELSE w.off, IsErr(w))>>
  IN /\ calls = <<>>
     /\ num # NoNum
     /\ fn \in {"writeU64", "writeI64"} => len = 8
     /\ wrote(CallWrite(fn, dst, num, off, len))
     /\ UNCHANGED <<num, data, offset, stack, zeroCopy>>

\* A read of the untouched buffer, or the read that matches the write just
\* made, at the offset and length of that write.
Read(fn, off, len) ==
  /\ \/ calls = <<>> /\ num = NoNum
     \/ /\ Len(calls) = 1
        /\ calls[1].fn \in WriteFns \cup VarintWriteFns
        /\ fn = Matching(calls[1].fn)
        /\ off = calls[1].off
        /\ len = calls[1].len
  /\ fn \in {"readU64", "readI64"} => len = 8
  /\ off + len <= Len(dst)
  /\ calls' = Append(calls, Call(fn, off, len, dst, CallRead(fn, dst, off, len),
                                 IsErr(CallRead(fn, dst, off, len))))
  /\ UNCHANGED <<dst, num, data, offset, stack, zeroCopy>>

NextCodec ==
  \/ \E fn \in WriteFns, off \in 0..MaxOff, len \in Widths : Write(fn, off, len)
  \/ \E fn \in ReadFns, off \in 0..MaxOff, len \in Widths : Read(fn, off, len)

SpecCodec == InitCodec /\ [][NextCodec]_vars

(***************************************************************************)
(* Properties of the fixed-width codec                                     *)
(***************************************************************************)

Signed(fn) ==
  fn \in {"writeI", "writeIBE", "writeI64", "readI", "readIBE", "readI64"}

BigEndian(fn) == fn \in {"writeUBE", "writeIBE", "readUBE", "readIBE"}

\* Whether v is representable in len bytes, unsigned or in two's complement.
Fits(v, len, signed) ==
  IF signed THEN Le(Neg(Pow2(8 * len - 1)), v) /\ Lt(v, Pow2(8 * len - 1))
  ELSE Le(N(0), v) /\ Lt(v, Pow2(8 * len))

\* The integer that bytes encode, least significant byte first.
Encoded(bytes, signed) ==
  IF signed /\ bytes[Len(bytes)] >= 128
  THEN Mk(TRUE, MagSub(Pow2(8 * Len(bytes)).mag, bytes, 0))
  ELSE Mk(FALSE, bytes)

Reverse(s) == [i \in 1..Len(s) |-> s[Len(s) + 1 - i]]

\* The bytes a read was made on, least significant first, and their integer.
Input(c) ==
  IF BigEndian(c.fn) THEN Reverse(SubSeq(c.in, c.off + 1, c.off + c.len))
  ELSE SubSeq(c.in, c.off + 1, c.off + c.len)

Meant(c) == Encoded(Input(c), Signed(c.fn))

Magnitude(v) == Mk(FALSE, v.mag)

\* C1: for every width, endianness and signedness, a generic write of a
\* representable v followed by the matching generic read at the same offset
\* and width returns v.
C1_GenericRoundTrip ==
  (/\ Len(calls) = 2
   /\ calls[1].fn \in {"writeU", "writeUBE", "writeI", "writeIBE"}
   /\ Fits(num, calls[1].len, Signed(calls[1].fn)))
  => calls[2].ret = num

\* C1: writeI of a representable v with len = 4, then readI with len = 4,
\* has returned something else than v.
C1_WriteI4Differs ==
  /\ Len(calls) = 2
  /\ calls[1].fn = "writeI" /\ calls[1].len = 4
  /\ Fits(num, 4, TRUE)
  /\ calls[2].fn = "readI" /\ calls[2].ret # num

\* C2: a 7-byte or 8-byte read returns the integer its bytes encode when
\* the magnitude of that integer is at most 2^53-1 and throws an
\* EncodingError otherwise; readU64 succeeds exactly when the top 11 bits of
\* its 8 bytes are zero; and no fixed-width read returns a magnitude above
\* 2^53-1.
C2_WideReads ==
  \A i \in DOMAIN calls :
    calls[i].fn \in ReadFns =>
      /\ calls[i].len \in {7, 8} =>
           IF Le(Magnitude(Meant(calls[i])), MAX_SAFE_INTEGER)
           THEN calls[i].ret = Meant(calls[i])
           ELSE IsErr(calls[i].ret) /\ calls[i].ret.type = "EncodingError"
      /\ (calls[i].len = 8 /\ calls[i].fn \in {"readU64", "readU"}) =>
           (~IsErr(calls[i].ret)
              <=> (calls[i].in[calls[i].off + 8] = 0 /\ calls[i].in[calls[i].off + 7] < 32))
      /\ ~IsErr(calls[i].ret) => Le(Magnitude(calls[i].ret), MAX_SAFE_INTEGER)

\* C2: readI64 has thrown on the eight bytes of -(2^53), and the read was
\* made on bytes nothing had written.
C2_Rejected ==
  /\ Len(calls) = 1
  /\ calls[1].fn = "readI64"
  /\ Meant(calls[1]) = Neg(Pow2(SafeBits))
  /\ IsErr(calls[1].ret)

\* C6: writeU64 of a negative v then readU64 throws an EncodingError; writeI64
\* of any v of magnitude up to 2^53-1 then readI64 returns v; writeU64 of a
\* v >= 0 then readU64 returns v.
C6_RoundTrip64 ==
  (Len(calls) = 2 /\ calls[1].fn \in {"writeU64", "writeI64"}) =>
    IF calls[1].fn = "writeU64" /\ Lt(num, N(0))
    THEN IsErr(calls[2].ret) /\ calls[2].ret.type = "EncodingError"
    ELSE calls[2].ret = num

\* C6: a negative v whose low word is zero was written by writeI64 and read
\* back by readI64.
C6_NegativeRead ==
  /\ Len(calls) = 2
  /\ calls[1].fn = "writeI64" /\ calls[2].fn = "readI64"
  /\ num = Neg(Pow2(32))
  /\ calls[2].ret = num

(***************************************************************************)
(* The varints under call                                                  *)
(***************************************************************************)

\* The numbers handed to the varint writers: the sampled numbers from 0
\* up, and those around 0xfd.
VarintNums ==
  {m \in SampleNums : ~m.neg}
    \cup {Add(N(253), N(d)) : d \in (-MaxDelta)..MaxDelta}

\* The lengths the inputs of the varint readers are cut to.
Cuts == {2, 4, 8, 9}

\* Inputs of the varint readers: a first byte 0xfd, 0xfe or 0xff followed
\* by the eight bytes of a number around a power of two or around 0xfd,
\* whole or cut short.
VarintBufs ==
  LET near == {Add(Pow2(e), N(d)) : e \in 0..(WordBits - 1), d \in (-MaxDelta)..MaxDelta}
      whole == {<<p>> \o Wrap(m, 8) : p \in {253, 254, 255}, m \in near \cup VarintNums}
  IN {SubSeq(b, 1, n) : b \in whole, n \in Cuts}

\* A number to encode into a fresh buffer, or bytes to decode.
InitVarint ==
  /\ calls = <<>>
  /\ NoObject
  /\ \/ dst \in {Blank(f) : f \in Fills} /\ num \in VarintNums
     \/ dst \in VarintBufs /\ num = NoNum

\* After a read has accepted its input: the value it returned is written
\* with the writer of the same format at the start of a fresh buffer.
Rewrite(fn, fill) ==
  LET wrote(w) ==
        /\ dst' = IF IsErr(w) THEN dst ELSE w.dst
        /\ calls' = Append(calls, Call(fn, 0, 0, Blank(fill),
                                       IF IsErr(w) THEN w ELSE w.off, IsErr(w)))
  IN /\ Len(calls) = 1
     /\ num = NoNum
     /\ calls[1].fn = Matching(fn)
     /\ ~IsErr(calls[1].ret)
     /\ wrote(CallWrite(fn, Blank(fill), calls[1].ret.value, 0, 0))
     /\ UNCHANGED <<num, data, offset, stack, zeroCopy>>

NextVarint ==
  \/ \E fn \in VarintWriteFns, off \in 0..MaxOff : Write(fn, off, 0)
  \/ \E fn \in VarintReadFns, off \in 0..MaxOff : Read(fn, off, 0)
  \/ \E fn \in VarintWriteFns, fill \in Fills : Rewrite(fn, fill)

SpecVarint == InitVarint /\ [][NextVarint]_vars

(***************************************************************************)
(* Properties of the varints                                               *)
(***************************************************************************)

\* The bytes between the offset a write was made at and the one it returned.
Written(c, after) == SubSeq(after, c.off + 1, c.ret)

\* The number in the size - 1 bytes that follow the first byte of a varint.
Payload(c, size) == Encoded(SubSeq(c.in, c.off + 2, c.off + size), FALSE)

\* C3: writeVarint of v in 0..2^53-1 writes sizeVarint(v) bytes and no
\* other, sizeVarint(v) being 1 below 0xfd, 3 up to 0xffff, 5 up to
\* 0xffffffff and 9 above; it returns off + sizeVarint(v); and readVarint
\* on the bytes returns the value v with the size sizeVarint(v).
C3_VarintSize ==
  (Len(calls) = 2 /\ calls[1].fn = "writeVarint") =>
    /\ ~calls[1].threw
    /\ sizeVarint(num) = (IF Lt(num, N(253)) THEN 1
                          ELSE IF Lt(num, Pow2(16)) THEN 3
                          ELSE IF Lt(num, Pow2(32)) THEN 5 ELSE 9)
    /\ calls[1].ret = calls[1].off + sizeVarint(num)
    /\ \A i \in DOMAIN dst :
         (i <= calls[1].off \/ i > calls[1].ret) => dst[i] = calls[1].in[i]
    /\ Written(calls[1], dst)[1] =
         (CASE sizeVarint(num) = 1 -> Low(num.mag)
            [] sizeVarint(num) = 3 -> 253
            [] sizeVarint(num) = 5 -> 254
            [] sizeVarint(num) = 9 -> 255)
    /\ calls[2].ret = Varint(sizeVarint(num), num)

\* C3: 0xffff was written in three bytes and read back.
C3_ThreeBytes ==
  /\ Len(calls) = 2
  /\ calls[1].fn = "writeVarint"
  /\ num = N(65535)
  /\ calls[1].ret = calls[1].off + 3
  /\ calls[2].ret = Varint(3, num)

\* C4: readVarint throws 'Non-canonical varint' on a 0xfd form of a value up
\* to 0xfc, a 0xfe form of a value up to 0xffff and a 0xff form of a value
\* up to 0xffffffff; and when readVarint accepts its input and returns
\* (size, value), writeVarint of value writes the size bytes it accepted.
C4_Canonical ==
  /\ \A i \in DOMAIN calls :
       (calls[i].fn = "readVarint" /\ calls[i].off < Len(calls[i].in)) =>
         \A form \in {<<253, 3, N(252)>>, <<254, 5, N(65535)>>,
                      <<255, 9, Sub(Pow2(32), N(1))>>} :
           (/\ calls[i].in[calls[i].off + 1] = form[1]
            /\ calls[i].off + form[2] <= Len(calls[i].in)
            /\ Le(Payload(calls[i], form[2]), form[3]))
           => (IsErr(calls[i].ret) /\ calls[i].ret.reason = "Non-canonical varint")
  /\ (Len(calls) = 2 /\ calls[2].fn = "writeVarint" /\ calls[1].fn = "readVarint") =>
       /\ ~calls[2].threw
       /\ calls[2].ret = calls[1].ret.size
       /\ Written(calls[2], dst)
            = SubSeq(calls[1].in, calls[1].off + 1, calls[1].off + calls[1].ret.size)

\* C4: readVarint has thrown on the 0xff form of 0xffffffff.
C4_Rejected ==
  /\ Len(calls) = 1
  /\ calls[1].fn = "readVarint"
  /\ calls[1].off = 0
  /\ calls[1].in = <<255, 255, 255, 255, 255, 0, 0, 0, 0>>
  /\ IsErr(calls[1].ret)

\* C4: a five-byte form was accepted and written back.
C4_Rewritten ==
  /\ Len(calls) = 2
  /\ calls[1].fn = "readVarint" /\ calls[2].fn = "writeVarint"
  /\ calls[1].ret.size = 5

\* C5: readVarint2 on the bytes written by writeVarint2 of v in 0..2^53-1
\* returns the value v and the number of bytes written as the size; and
\* 0, 1, 127, 128, 255, 16383, 16384 and 2^32 are written as [00], [01],
\* [7F], [80 00], [80 7F], [FE 7F], [FF 00] and [8E FE FE FF 00].
C5_Varint2RoundTrip ==
  (Len(calls) = 2 /\ calls[1].fn = "writeVarint2") =>
    /\ ~calls[1].threw
    /\ calls[2].ret = Varint(calls[1].ret - calls[1].off, num)
    /\ \A row \in {<<N(0), <<0>>>>, <<N(1), <<1>>>>, <<N(127), <<127>>>>,
                   <<N(128), <<128, 0>>>>, <<N(255), <<128, 127>>>>,
                   <<N(16383), <<254, 127>>>>, <<N(16384), <<255, 0>>>>,
                   <<Pow2(32), <<142, 254, 254, 255, 0>>>>} :
         num = row[1] => Written(calls[1], dst) = row[2]

\* C5: 2^53-1 was written by writeVarint2 in eight bytes and readVarint2
\* has thrown on them.
C5_MaxThrows ==
  /\ Len(calls) = 2
  /\ calls[1].fn = "writeVarint2"
  /\ num = MAX_SAFE_INTEGER
  /\ calls[1].ret = calls[1].off + 8
  /\ IsErr(calls[2].ret)

(***************************************************************************)
(* lib/reader.js: BufferReader.  A method is a function of the reader r    *)
(* (its fields data, offset, stack and zeroCopy) to the reader it leaves   *)
(* and what it returned or threw; the methods are prefixed br_ where the   *)
(* codec has a function of the same name.                                  *)
(***************************************************************************)

\* What Node's assert throws, and what Buffer.allocUnsafe throws when it is
\* given a negative size.
AssertionError == [type |-> "AssertionError"]

RangeError == [type |-> "RangeError"]

Reader(d, off, st, zc) == [data |-> d, offset |-> off, stack |-> st, zeroCopy |-> zc]

Returned(r, ret) == [r |-> r, ret |-> ret, threw |-> FALSE]

Threw(r, err) == [r |-> r, ret |-> err, threw |-> TRUE]

\* assert(value) of Node, this.assert(value) and this.enforce(value, reason),
\* each followed by the rest of the method.
assert(r, value, rest) == IF ~value THEN Threw(r, AssertionError) ELSE rest

br_assert(r, value, rest) ==
  IF ~value THEN Threw(r, EncodingError(r.offset, "Out of bounds read")) ELSE rest

br_enforce(r, value, reason, rest) ==
  IF ~value THEN Threw(r, EncodingError(r.offset, reason)) ELSE rest

\* this.offset += n.
Advance(r, n) == [r EXCEPT !.offset = r.offset + n]

\* buf.slice(from, to) of Node: negative indices count from the end, and
\* both are clamped to the buffer.
clamp(i, len) ==
  IF i < 0 THEN (IF len + i < 0 THEN 0 ELSE len + i) ELSE IF i > len THEN len ELSE i

slice(buf, from, to) == SubSeq(buf, clamp(from, Len(buf)) + 1, clamp(to, Len(buf)))

\* seek with only the lower of its two checks.
seekChecksLow(pos, off, length) == pos + off >= 0

\* The two bounds checks of seek.
seekChecks(pos, off, length) == pos + off >= 0 /\ pos + off <= length

seek(r, off) ==
  br_assert(r, seekChecks(r.offset, off, Len(r.data)),
            Returned(Advance(r, off), "this"))

start(r) == Returned([r EXCEPT !.stack = Append(r.stack, r.offset)], r.offset)

\* this.stack.pop(): the value popped and the reader left.
Top(r) == r.stack[Len(r.stack)]

Pop(r) == [r EXCEPT !.stack = SubSeq(r.stack, 1, Len(r.stack) - 1)]

end(r) == assert(r, Len(r.stack) > 0, Returned(Pop(r), r.offset - Top(r)))

\* The copying branch allocates size = end - start bytes, which throws when
\* size is negative; the stack has been popped by then.
endData(r, zc) ==
  assert(r, Len(r.stack) > 0,
         IF r.offset - Top(r) = Len(r.data) THEN Returned(Pop(r), r.data)
         ELSE IF r.zeroCopy \/ zc
         THEN Returned(Pop(r), slice(r.data, Top(r), r.offset))
         ELSE IF r.offset - Top(r) < 0 THEN Threw(Pop(r), RangeError)
         ELSE Returned(Pop(r), SubSeq(r.data, Top(r) + 1, r.offset)))

\* destroy without this.stack.length = 0.
destroyKeepingSpans(r) == Returned(Reader(<<>>, 0, r.stack, r.zeroCopy), "this")

destroy(r) == Returned(Reader(<<>>, 0, <<>>, r.zeroCopy), "this")

\* The fixed-width reads: the bytes each takes, and its value.  The reads
\* of up to 32 bits are those of Node's Buffer; a float or a double is kept
\* as the bytes that hold it, in the order of the buffer.
FixedReads ==
  {"readU8", "readU16", "readU16BE", "readU32", "readU32BE", "readU64",
   "readU64BE", "readI8", "readI16", "readI16BE", "readI32", "readI32BE",
   "readI64", "readI64BE", "readFloat", "readFloatBE", "readDouble",
   "readDoubleBE"}

Width(fn) ==
  CASE fn \in {"readU8", "readI8"} -> 1
    [] fn \in {"readU16", "readU16BE", "readI16", "readI16BE"} -> 2
    [] fn \in {"readU32", "readU32BE", "readI32", "readI32BE",
               "readFloat", "readFloatBE"} -> 4
    [] OTHER -> 8

Bits(d, off, n) == [bits |-> SubSeq(d, off + 1, off + n)]

Value(fn, d, off) ==
  CASE fn = "readU8" -> readU8(d, off)
    [] fn = "readU16" -> readU16(d, off)
    [] fn = "readU16BE" -> readU16BE(d, off)
    [] fn = "readU32" -> readU32(d, off)
    [] fn = "readU32BE" -> readU32BE(d, off)
    [] fn = "readU64" -> readU64(d, off)
    [] fn = "readU64BE" -> readU64BE(d, off)
    [] fn = "readI8" -> readI8(d, off)
    [] fn = "readI16" -> readI16(d, off)
    [] fn = "readI16BE" -> readI16BE(d, off)
    [] fn = "readI32" -> readI32(d, off)
    [] fn = "readI32BE" -> readI32BE(d, off)
    [] fn = "readI64" -> readI64(d, off)
    [] fn = "readI64BE" -> readI64BE(d, off)
    [] fn \in {"readFloat", "readFloatBE"} -> Bits(d, off, 4)
    [] fn \in {"readDouble", "readDoubleBE"} -> Bits(d, off, 8)

\* const ret = <the read>; this.offset += n; return ret.
Took(r, n, ret) == IF IsErr(ret) THEN Threw(r, ret) ELSE Returned(Advance(r, n), ret)

readFixed(r, fn) ==
  br_assert(r, r.offset + Width(fn) <= Len(r.data),
            Took(r, Width(fn), Value(fn, r.data, r.offset)))

\* const {size, value} = <the read>; this.offset += size; return value.
TookVarint(r, v) ==
  IF IsErr(v) THEN Threw(r, v) ELSE Returned(Advance(r, v.size), v.value)

br_readVarint(r) == TookVarint(r, readVarint(r.data, r.offset))

br_readVarint2(r) == TookVarint(r, readVarint2(r.data, r.offset))

\* size is a number, which a varint may have made as large as 2^53-1.
readBytes(r, size, zc) ==
  assert(r, Le(N(0), size),
    br_assert(r, Le(Add(N(r.offset), size), N(Len(r.data))),
      Returned(Advance(r, AsInt(size)),
               IF r.zeroCopy \/ zc
               THEN slice(r.data, r.offset, r.offset + AsInt(size))
               ELSE SubSeq(r.data, r.offset + 1, r.offset + AsInt(size)))))

\* readBytes on what readVarint left and returned; a throw of readVarint
\* is the outcome.
thenReadBytes(o, zc) == IF o.threw THEN o ELSE readBytes(o.r, o.ret, zc)

readVarBytes(r, zc) == thenReadBytes(br_readVarint(r), zc)

\* buf.toString(enc, from, to) for the encodings 'hex' and 'ascii': a
\* string is the sequence of its characters, a hex digit each or a
\* character code each.
HexDigits ==
  <<"0", "1", "2", "3", "4", "5", "6", "7", "8", "9", "a", "b", "c", "d", "e", "f">>

toString(buf, enc, from, to) ==
  IF enc = "hex"
  THEN [i \in 1..(2 * (to - from)) |->
          HexDigits[(IF i % 2 = 1 THEN buf[from + (i + 1) \div 2] \div 16
                     ELSE buf[from + (i + 1) \div 2] % 16) + 1]]
  ELSE [i \in 1..(to - from) |-> buf[from + i] % 128]

readString(r, enc, size) ==
  assert(r, Le(N(0), size),
    br_assert(r, Le(Add(N(r.offset), size), N(Len(r.data))),
      Returned(Advance(r, AsInt(size)),
               toString(r.data, enc, r.offset, r.offset + AsInt(size)))))

\* enc is "" when readHash is called with no encoding.
readHash(r, enc) ==
  IF enc # "" THEN readString(r, enc, N(32)) ELSE readBytes(r, N(32), FALSE)

\* limit is 0 when readVarString is called with no limit.
thenReadString(o, enc, limit) ==
  IF o.threw THEN o
  ELSE br_enforce(o.r, limit = 0 \/ Le(o.ret, N(limit)), "String exceeds limit.",
                  readString(o.r, enc, o.ret))

readVarString(r, enc, limit) == thenReadString(br_readVarint(r), enc, limit)

\* The loop of readNullString: the index of the first zero byte from i on,
\* or data.length.
RECURSIVE scan(_, _)
scan(d, i) == IF i < Len(d) /\ d[i + 1] # 0 THEN scan(d, i + 1) ELSE i

\* The readString alone: the offset is left at the zero byte.
thenStayAtNull(o, i) == o

\* this.offset = i + 1 after the readString that left o.
thenSkipNull(o, i) ==
  IF o.threw THEN o ELSE Returned([o.r EXCEPT !.offset = i + 1], o.ret)

readNullString(r, enc) ==
  br_assert(r, r.offset + 1 <= Len(r.data),
    br_assert(r, scan(r.data, r.offset) # Len(r.data),
      thenSkipNull(readString(r, enc, N(scan(r.data, r.offset) - r.offset)),
                   scan(r.data, r.offset))))

\* The hash functions handed to createChecksum, verifyChecksum and
\* writeChecksum: "sum" gives the sum and the number of its input's bytes,
\* "one" gives the four bytes of 1, "wide" gives six bytes, the number and
\* the sum of its input's bytes first.
Hashes == {"sum", "one"}

RECURSIVE SumBytes(_)
SumBytes(s) == IF s = <<>> THEN 0 ELSE s[1] + SumBytes(Tail(s))

hash(h, bytes) ==
  IF h = "sum" THEN <<SumBytes(bytes) % 256, Len(bytes) % 256, 0, 0>>
  ELSE IF h = "wide"
  THEN <<Len(bytes) % 256, SumBytes(bytes) % 256, 0, 0, 255, 255>>
  ELSE <<1, 0, 0, 0>>

createChecksum(r, h) ==
  Returned(r, readU32(hash(h, slice(r.data,
                                    IF Len(r.stack) > 0 THEN Top(r) ELSE 0,
                                    r.offset)), 0))

\* The enforce of verifyChecksum after the readU32 that left o.
thenCompare(chk, o) ==
  IF o.threw THEN o
  ELSE br_enforce(o.r, chk = o.ret, "Checksum mismatch.", Returned(o.r, o.ret))

verifyChecksum(r, h) ==
  thenCompare(createChecksum(r, h).ret, readFixed(createChecksum(r, h).r, "readU32"))

(***************************************************************************)
(* A BufferReader under call: data, offset, stack and zeroCopy are its     *)
(* fields.  calls is empty until the call under observation is made: a     *)
(* call either passes unobserved or is recorded, with the reader it found  *)
(* and what it returned or threw, and is then the last.                    *)
(***************************************************************************)

\* How deep the spans are nested, how far a seek goes and how many bytes
\* readBytes and readString are asked for.
MaxDepth == 2
MaxSeek == 2
MaxSize == 2

\* The buffers read: the four bytes of 1, which is the "one" checksum; the
\* three-byte varint of 253; and the eight bytes of 2^53-1.
SampleData ==
  {<<1, 0, 0, 0>>, <<253, 253, 0>>, <<255, 255, 255, 255, 255, 255, 31, 0>>}

Encodings == {"hex", "ascii"}

\* No buffer and no number of the codec is in play.
NoCodec == dst = <<>> /\ num = NoNum

Me == Reader(data, offset, stack, zeroCopy)

InitReader ==
  /\ NoCodec
  /\ calls = <<>>
  /\ data \in SampleData
  /\ offset = 0
  /\ stack = <<>>
  /\ zeroCopy \in BOOLEAN

\* The call fn(args) with the outcome out.
Do(fn, args, out) ==
  /\ calls = <<>>
  /\ data' = out.r.data
  /\ offset' = out.r.offset
  /\ stack' = out.r.stack
  /\ zeroCopy' = out.r.zeroCopy
  /\ calls' \in {<<>>, <<[fn |-> fn, args |-> args, before |-> Me,
                         ret |-> out.ret, threw |-> out.threw]>>}
  /\ UNCHANGED <<dst, num>>

Seek(off) == Do("seek", <<off>>, seek(Me, off))

Start == Len(stack) < MaxDepth /\ Do("start", <<>>, start(Me))

End == Do("end", <<>>, end(Me))

EndData(zc) == Do("endData", <<zc>>, endData(Me, zc))

Destroy == Do("destroy", <<>>, destroy(Me))

ReadFixed(fn) == Do(fn, <<>>, readFixed(Me, fn))

ReadVarint == Do("readVarint", <<>>, br_readVarint(Me))

ReadVarint2 == Do("readVarint2", <<>>, br_readVarint2(Me))

ReadBytes(size, zc) == Do("readBytes", <<size, zc>>, readBytes(Me, N(size), zc))

ReadVarBytes(zc) == Do("readVarBytes", <<zc>>, readVarBytes(Me, zc))

ReadString(enc, size) == Do("readString", <<enc, size>>, readString(Me, enc, N(size)))

ReadHash(enc) == Do("readHash", <<enc>>, readHash(Me, enc))

ReadVarString(enc, limit) ==
  Do("readVarString", <<enc, limit>>, readVarString(Me, enc, limit))

ReadNullString(enc) == Do("readNullString", <<enc>>, readNullString(Me, enc))

CreateChecksum(h) == Do("createChecksum", <<h>>, createChecksum(Me, h))

VerifyChecksum(h) == Do("verifyChecksum", <<h>>, verifyChecksum(Me, h))

NextReader ==
  \/ \E off \in (-MaxSeek)..MaxSeek : Seek(off)
  \/ Start
  \/ End
  \/ \E zc \in BOOLEAN : EndData(zc)
  \/ Destroy
  \/ \E fn \in FixedReads : ReadFixed(fn)
  \/ ReadVarint
  \/ ReadVarint2
  \/ \E size \in (-1)..MaxSize, zc \in BOOLEAN : ReadBytes(size, zc)
  \/ \E zc \in BOOLEAN : ReadVarBytes(zc)
  \/ \E enc \in Encodings, size \in (-1)..MaxSize : ReadString(enc, size)
  \/ \E enc \in Encodings \cup {""} : ReadHash(enc)
  \/ \E enc \in Encodings, limit \in 0..1 : ReadVarString(enc, limit)
  \/ \E enc \in Encodings : ReadNullString(enc)
  \/ \E h \in Hashes : CreateChecksum(h)
  \/ \E h \in Hashes : VerifyChecksum(h)

SpecReader == InitReader /\ [][NextReader]_vars

(***************************************************************************)
(* Properties of the BufferReader                                          *)
(***************************************************************************)

\* The read operations of the reader.
ReaderReads ==
  FixedReads \cup {"readVarint", "readVarint2", "readBytes", "readVarBytes",
                   "readString", "readVarString", "readNullString", "readHash",
                   "verifyChecksum"}

\* The call under observation was made.
Observed == Len(calls) = 1 /\ "before" \in DOMAIN calls[1]

\* The bytes that hold a string of the encoding enc.
StringBytes(enc, str) == IF enc = "hex" THEN Len(str) \div 2 ELSE Len(str)

\* The bytes a read that returned has consumed, from what it returned: the
\* width of a fixed-width read, the size of the varint of the value, the
\* bytes or the string returned, with the varint of their length or the
\* zero byte that ends them.
Consumed(c) ==
  CASE c.fn \in FixedReads -> Width(c.fn)
    [] c.fn = "readVarint" -> sizeVarint(c.ret)
    [] c.fn = "readVarint2" -> sizeVarint2(c.ret)
    [] c.fn = "readBytes" -> Len(c.ret)
    [] c.fn = "readVarBytes" -> sizeVarint(N(Len(c.ret))) + Len(c.ret)
    [] c.fn = "readString" -> StringBytes(c.args[1], c.ret)
    [] c.fn = "readVarString" ->
         sizeVarint(N(StringBytes(c.args[1], c.ret))) + StringBytes(c.args[1], c.ret)
    [] c.fn = "readNullString" -> StringBytes(c.args[1], c.ret) + 1
    [] c.fn = "readHash" -> 32
    [] c.fn = "verifyChecksum" -> 4

\* C7: a read operation of the reader that fails leaves the offset and the
\* span stack as they were before the call, and one that succeeds advances
\* the offset by the number of bytes it consumed.
C7_FailedReadKeepsState ==
  (Observed /\ calls[1].fn \in ReaderReads) =>
    IF calls[1].threw
    THEN offset = calls[1].before.offset /\ stack = calls[1].before.stack
    ELSE offset = calls[1].before.offset + Consumed(calls[1])

\* C7: readVarBytes has thrown a bounds error after its varint was read,
\* and the offset has moved past the varint.
C7_VarBytesAdvanced ==
  /\ Observed
  /\ calls[1].fn = "readVarBytes"
  /\ calls[1].threw
  /\ calls[1].ret.reason = "Out of bounds read"
  /\ offset = calls[1].before.offset + 3

\* C8: 0 <= offset <= data.length in every state of the reader, whatever
\* was called and whether it failed; and seek(delta) with offset + delta
\* below 0 or above data.length throws a bounds error and leaves the offset
\* unchanged.
C8_OffsetInRange ==
  /\ 0 <= offset
  /\ offset <= Len(data)
  /\ (Observed /\ calls[1].fn = "seek") =>
       ((\/ calls[1].before.offset + calls[1].args[1] < 0
         \/ calls[1].before.offset + calls[1].args[1] > Len(calls[1].before.data))
        => /\ calls[1].threw
           /\ calls[1].ret = EncodingError(calls[1].before.offset, "Out of bounds read")
           /\ offset = calls[1].before.offset)

\* C8: a seek from inside the buffer to beyond its end was refused.
C8_SeekRefused ==
  /\ Observed
  /\ calls[1].fn = "seek"
  /\ calls[1].before.offset > 0
  /\ calls[1].before.offset + calls[1].args[1] > Len(data)
  /\ calls[1].threw
  /\ offset = calls[1].before.offset

\* The bytes data[start..offset) of the innermost span of the reader r.
SpanData(r) == [i \in 1..(r.offset - Top(r)) |-> r.data[Top(r) + i]]

\* C10: start() pushes the current offset and changes nothing else; end()
\* pops the last pushed start and returns the current offset minus it;
\* endData() pops the same entry and returns the bytes data[start..offset);
\* with an empty span stack end() and endData() fail and leave the offset
\* and the stack unchanged.
C10_Spans ==
  Observed =>
    /\ calls[1].fn = "start" =>
         /\ ~calls[1].threw
         /\ calls[1].ret = calls[1].before.offset
         /\ stack = Append(calls[1].before.stack, calls[1].before.offset)
         /\ Reader(data, offset, calls[1].before.stack, zeroCopy) = calls[1].before
    /\ (calls[1].fn \in {"end", "endData"} /\ calls[1].before.stack = <<>>) =>
         /\ calls[1].threw
         /\ Me = calls[1].before
    /\ (calls[1].fn \in {"end", "endData"} /\ calls[1].before.stack # <<>>) =>
         /\ ~calls[1].threw
         /\ Me = Pop(calls[1].before)
    /\ (calls[1].fn = "end" /\ calls[1].before.stack # <<>>) =>
         calls[1].ret = calls[1].before.offset - Top(calls[1].before)
    /\ (calls[1].fn = "endData" /\ calls[1].before.stack # <<>>) =>
         calls[1].ret = SpanData(calls[1].before)

\* C10: endData() was called without zero copy on a span that starts after
\* the offset; it has popped the span and thrown.
C10_BackwardSpanThrew ==
  /\ Observed
  /\ calls[1].fn = "endData"
  /\ calls[1].before.stack # <<>>
  /\ Top(calls[1].before) > calls[1].before.offset
  /\ calls[1].threw
  /\ stack = Pop(calls[1].before).stack

(***************************************************************************)
(* lib/staticwriter.js: StaticWriter.  A method is a function of the       *)
(* writer w (its fields data and offset) to the writer it leaves and what  *)
(* it returned or threw; the methods are prefixed sw_.                     *)
(***************************************************************************)

Writer(d, off) == [data |-> d, offset |-> off]

sw_seek(w, off) == Returned(Writer(w.data, w.offset + off), "this")

\* this.offset = encoding.<write>(this.data, value, this.offset): res is
\* what the write of the codec returned or threw.
Moved(w, res) ==
  IF IsErr(res) THEN Threw(w, res) ELSE Returned(Writer(res.dst, res.off), "this")

\* The fixed-width writes.  Those of 64 bits are the codec's.  Those of up to
\* 32 bits are Node's Buffer writes called with noAssert: inside the buffer
\* they store the bytes and return the offset after them; outside it, a
\* Node that honours noAssert stores what lies inside and returns the offset
\* all the same, and a Node that checks throws a RangeError.
FixedWrites ==
  {"writeU8", "writeU16", "writeU16BE", "writeU32", "writeU32BE", "writeU64",
   "writeU64BE", "writeI8", "writeI16", "writeI16BE", "writeI32", "writeI32BE",
   "writeI64", "writeI64BE"}

Stored(fn, d, v, off) ==
  CASE fn \in {"writeU8", "writeI8"} -> writeU8(d, v, off)
    [] fn \in {"writeU16", "writeI16"} -> writeU16(d, v, off)
    [] fn \in {"writeU16BE", "writeI16BE"} -> writeU16BE(d, v, off)
    [] fn \in {"writeU32", "writeI32"} -> writeU32(d, v, off)
    [] fn \in {"writeU32BE", "writeI32BE"} -> writeU32BE(d, v, off)
    [] fn = "writeU64" -> writeU64(d, v, off)
    [] fn = "writeU64BE" -> writeU64BE(d, v, off)
    [] fn = "writeI64" -> writeI64(d, v, off)
    [] fn = "writeI64BE" -> writeI64BE(d, v, off)

sw_writeFixed(w, fn, value, checks) ==
  IF /\ checks
     /\ fn \notin {"writeU64", "writeU64BE", "writeI64", "writeI64BE"}
     /\ (w.offset < 0 \/ Stored(fn, w.data, value, w.offset).off > Len(w.data))
  THEN Threw(w, RangeError)
  ELSE Moved(w, Stored(fn, w.data, value, w.offset))

sw_writeVarint(w, value) == Moved(w, writeVarint(w.data, value, w.offset))

sw_writeVarint2(w, value) == Moved(w, writeVarint2(w.data, value, w.offset))

\* source.copy(target, targetStart, sourceStart, sourceEnd) of Node: a
\* negative targetStart throws; the bytes that have no room in target are
\* not copied.
bufferCopy(source, target, targetStart, from, to) ==
  IF targetStart < 0 THEN RangeError
  ELSE [data |-> [i \in 1..Len(target) |->
                    IF i > targetStart /\ i - targetStart <= to - from
                    THEN source[from + i - targetStart] ELSE target[i]]]

\* this.offset += n after the copy c.
Copied(w, c, n) ==
  IF IsErr(c) THEN Threw(w, c) ELSE Returned(Writer(c.data, w.offset + n), "this")

writeBytes(w, value) ==
  IF Len(value) = 0 THEN Returned(w, "this")
  ELSE Copied(w, bufferCopy(value, w.data, w.offset, 0, Len(value)), Len(value))

sw_copy(w, value, from, to) ==
  IF to - from = 0 THEN Returned(w, "this")
  ELSE Copied(w, bufferCopy(value, w.data, w.offset, from, to), to - from)

\* buf.fill(value, offset, end) of Node throws when the range leaves the
\* buffer.
sw_fill(w, value, size) ==
  assert(w, size >= 0,
    IF size = 0 THEN Returned(w, "this")
    ELSE IF w.offset < 0 \/ w.offset + size > Len(w.data) THEN Threw(w, RangeError)
    ELSE Returned(Writer([i \in 1..Len(w.data) |->
                            IF i > w.offset /\ i <= w.offset + size
                            THEN value ELSE w.data[i]],
                         w.offset + size), "this"))

\* writeChecksum with the hash taken of the whole buffer.
writeChecksumWhole(w, h) ==
  Copied(w, bufferCopy(hash(h, w.data), w.data, w.offset, 0, 4), 4)

writeChecksum(w, h) ==
  Copied(w, bufferCopy(hash(h, slice(w.data, 0, w.offset)), w.data, w.offset, 0, 4), 4)

(***************************************************************************)
(* A StaticWriter under call: data and offset are its fields.              *)
(***************************************************************************)

\* The sizes a writer is made with, and how far outside its buffer the
\* offset is followed.
MaxCapacity == 3
MaxStray == 8

\* What the bytes of Buffer.allocUnsafe(size) may hold.
Unwritten == {0, 255}

\* The values written.
Values == {N(1), N(253)}

Chunks == {<<>>, <<1>>, <<1, 0>>}

Self == Writer(data, offset)

InitWriter ==
  /\ NoCodec
  /\ calls = <<>>
  /\ stack = <<>>
  /\ zeroCopy = FALSE
  /\ offset = 0
  /\ \E size \in 0..MaxCapacity : data \in [1..size -> Unwritten]

\* A call with the outcome out.
Invoke(out) ==
  /\ out.r.offset >= -MaxStray
  /\ out.r.offset <= Len(data) + MaxStray
  /\ data' = out.r.data
  /\ offset' = out.r.offset
  /\ UNCHANGED <<dst, num, calls, stack, zeroCopy>>

WriterSeek(off) == Invoke(sw_seek(Self, off))

WriteFixed(fn, checks) == Invoke(sw_writeFixed(Self, fn, N(1), checks))

WriteVarint(value) == Invoke(sw_writeVarint(Self, value))

WriteVarint2(value) == Invoke(sw_writeVarint2(Self, value))

WriteBytes(value) == Invoke(writeBytes(Self, value))

Copy(value, from, to) == from <= to /\ Invoke(sw_copy(Self, value, from, to))

Fill(size) == Invoke(sw_fill(Self, 1, size))

WriteChecksum(h) == Invoke(writeChecksum(Self, h))

NextWriter ==
  \/ \E off \in (-MaxSeek)..MaxSeek : WriterSeek(off)
  \/ \E fn \in FixedWrites, checks \in BOOLEAN : WriteFixed(fn, checks)
  \/ \E value \in Values : WriteVarint(value)
  \/ \E value \in Values : WriteVarint2(value)
  \/ \E value \in Chunks : WriteBytes(value)
  \/ \E from \in 0..2, to \in 0..2 : Copy(<<1, 0>>, from, to)
  \/ \E size \in (-1)..MaxSize : Fill(size)
  \/ \E h \in Hashes : WriteChecksum(h)

SpecWriter == InitWriter /\ [][NextWriter]_vars

(***************************************************************************)
(* Properties of the StaticWriter                                          *)
(***************************************************************************)

\* C9: 0 <= offset <= data.length in every state of the writer: an
\* operation that would move the offset past the capacity fails and does
\* not advance it.
C9_OffsetInCapacity == 0 <= offset /\ offset <= Len(data)

\* C9: the offset of a writer lies beyond its capacity.
C9_PastCapacity == offset > Len(data)

(***************************************************************************)
(* lib/reader.js: the memory of the buffers the reader returns.  A buffer  *)
(* returned by readBytes, readVarBytes or endData is either the reader's   *)
(* data itself or a slice of it (data.slice shares the memory of data), or *)
(* a buffer of its own (Buffer.allocUnsafe) that the bytes were copied to. *)
(***************************************************************************)

Shared(from, to) == [shared |-> TRUE, from |-> from, to |-> to]

Allocated == [shared |-> FALSE]

\* The buffer readBytes returns when it returns: the reader r is the one
\* it was called on.
readBytesBuffer(r, size, zc) ==
  IF r.zeroCopy \/ zc
  THEN Shared(clamp(r.offset, Len(r.data)), clamp(r.offset + size, Len(r.data)))
  ELSE Allocated

\* size is what readVarint returned to readVarBytes and o what it left.
readVarBytesBuffer(o, zc) ==
  IF o.threw THEN Allocated ELSE readBytesBuffer(o.r, AsInt(o.ret), zc)

\* The buffer endData returns when it returns: data itself when the span is
\* as long as data.
endDataBuffer(r, zc) ==
  IF r.offset - Top(r) = Len(r.data) THEN Shared(0, Len(r.data))
  ELSE IF r.zeroCopy \/ zc
  THEN Shared(clamp(Top(r), Len(r.data)), clamp(r.offset, Len(r.data)))
  ELSE Allocated

(***************************************************************************)
(* A BufferReader whose caller keeps the buffer a call returned and then   *)
(* changes a byte of the source buffer.  dst is the memory of the returned *)
(* buffer when it has memory of its own.                                   *)
(***************************************************************************)

\* The values a changed byte is given.
Changes == {0, 255}

\* The call fn(args) with the outcome out, which returned the buffer buf
\* unless it threw.
Hand(fn, args, out, buf) ==
  /\ calls = <<>>
  /\ data' = out.r.data
  /\ offset' = out.r.offset
  /\ stack' = out.r.stack
  /\ zeroCopy' = out.r.zeroCopy
  /\ calls' = IF out.threw THEN <<>>
              ELSE <<[fn |-> fn, args |-> args, before |-> Me, ret |-> out.ret,
                      threw |-> FALSE, buf |-> buf]>>
  /\ dst' = IF out.threw \/ buf.shared THEN <<>> ELSE out.ret
  /\ UNCHANGED num

TakeBytes(size, zc) ==
  Hand("readBytes", <<size, zc>>, readBytes(Me, N(size), zc),
       readBytesBuffer(Me, size, zc))

TakeVarBytes(zc) ==
  Hand("readVarBytes", <<zc>>, readVarBytes(Me, zc),
       readVarBytesBuffer(br_readVarint(Me), zc))

TakeData(zc) ==
  Len(stack) > 0 /\ Hand("endData", <<zc>>, endData(Me, zc), endDataBuffer(Me, zc))

\* A buffer was returned and is kept.
Handed == Len(calls) = 1 /\ "buf" \in DOMAIN calls[1]

\* data[i] = v by the owner of the source buffer, once, after the call.
Change(i, v) ==
  /\ Handed
  /\ data = calls[1].before.data
  /\ v # data[i + 1]
  /\ data' = [data EXCEPT ![i + 1] = v]
  /\ UNCHANGED <<dst, num, calls, offset, stack, zeroCopy>>

NextAlias ==
  \/ \E off \in (-MaxSeek)..MaxSeek : Seek(off)
  \/ Start
  \/ \E size \in 0..MaxSize, zc \in BOOLEAN : TakeBytes(size, zc)
  \/ \E zc \in BOOLEAN : TakeVarBytes(zc)
  \/ \E zc \in BOOLEAN : TakeData(zc)
  \/ \E i \in 0..(Len(data) - 1), v \in Changes : Change(i, v)

SpecAlias == InitReader /\ [][NextAlias]_vars

\* The bytes the kept buffer holds now.
Held ==
  IF calls[1].buf.shared
  THEN SubSeq(data, calls[1].buf.from + 1, calls[1].buf.to)
  ELSE dst

\* The bytes of the source buffer, as they are now, in the range the call
\* returned: the size bytes from the offset readBytes found, the bytes
\* before the offset readVarBytes left, the span endData closed.
Source(c) ==
  CASE c.fn = "readBytes" ->
         SubSeq(data, c.before.offset + 1, c.before.offset + c.args[1])
    [] c.fn = "readVarBytes" -> SubSeq(data, offset - Len(c.ret) + 1, offset)
    [] c.fn = "endData" ->
         SubSeq(data, c.before.stack[Len(c.before.stack)] + 1, c.before.offset)

\* C11: a buffer returned by readBytes, readVarBytes or endData of a reader
\* constructed with zeroCopy = true shows every later change of the source
\* bytes in its range; one returned by a reader constructed with zeroCopy =
\* false, called without the zeroCopy flag, keeps the bytes it was returned
\* with whatever is changed in the source, for every span, the one covering
\* the whole source included.
C11_ZeroCopyShares ==
  Handed =>
    /\ calls[1].before.zeroCopy => Held = Source(calls[1])
    /\ (~calls[1].before.zeroCopy /\ ~calls[1].args[Len(calls[1].args)]) =>
         Held = calls[1].ret

\* C11: endData of a copying reader, called without the flag on a span
\* that covers the whole source, returned a buffer in which a later change
\* of the source shows.
C11_WholeSpanChanged ==
  /\ Handed
  /\ calls[1].fn = "endData"
  /\ ~calls[1].before.zeroCopy
  /\ ~calls[1].args[1]
  /\ calls[1].before.offset - calls[1].before.stack[1] = Len(data)
  /\ Held # calls[1].ret

(***************************************************************************)
(* lib/staticwriter.js: render and destroy                                 *)
(***************************************************************************)

\* this.data = EMPTY; this.offset = 0.
sw_destroy(w) == Returned(Writer(<<>>, 0), "this")

\* The buffer returned is the writer's own: it is not copied.
render(w) ==
  assert(w, w.offset = Len(w.data), Returned(sw_destroy(w).r, w.data))

(***************************************************************************)
(* A payload and its checksum, written and read back.  A StaticWriter      *)
(* (data, offset) is written to, writeChecksum closes it and render hands  *)
(* its buffer to a BufferReader (data, offset, stack, zeroCopy); a byte of *)
(* the payload may be changed on the way.  calls is the history: the       *)
(* writeChecksum, the render, the change if any, and the createChecksum or *)
(* verifyChecksum that ends it.                                            *)
(***************************************************************************)

\* The longest payload, in bytes, and the bytes of a checksum.
MaxPayload == 2
ChecksumSize == 4

Digests == Hashes \cup {"wide"}

InitChecksum ==
  /\ NoCodec
  /\ calls = <<>>
  /\ stack = <<>>
  /\ zeroCopy = FALSE
  /\ offset = 0
  /\ \E size \in ChecksumSize..(ChecksumSize + MaxPayload), fill \in Unwritten :
       data = [i \in 1..size |-> fill]

\* The last entry of the history.
Last == calls[Len(calls)]

Writing == calls = <<>>

Reading == calls # <<>> /\ Last.fn \in {"render", "change"}

\* A call on the writer or on the reader with the outcome out, entered in
\* the history as entry unless entry is empty.
Enter(out, entry) ==
  /\ out.r.offset <= Len(data) + ChecksumSize
  /\ data' = out.r.data
  /\ offset' = out.r.offset
  /\ (IF "stack" \in DOMAIN out.r THEN stack' = out.r.stack ELSE stack' = stack)
  /\ calls' = calls \o entry
  /\ UNCHANGED <<dst, num, zeroCopy>>

Payload8(value) == Writing /\ Enter(sw_writeFixed(Self, "writeU8", value, TRUE), <<>>)

PayloadBytes(value) == Writing /\ Enter(writeBytes(Self, value), <<>>)

\* writeChecksum(h): the entry keeps the bytes written before it.
Seal(h) ==
  /\ Writing
  /\ Enter(writeChecksum(Self, h),
           <<[fn |-> "writeChecksum", h |-> h,
              payload |-> slice(data, 0, offset),
              threw |-> writeChecksum(Self, h).threw]>>)

\* new BufferReader(bw.render()): a render that throws leaves the writer.
Render ==
  /\ calls # <<>>
  /\ Last.fn = "writeChecksum"
  /\ IF render(Self).threw
     THEN Enter(render(Self), <<>>)
     ELSE Enter(Returned(Reader(render(Self).ret, 0, <<>>, FALSE), "reader"),
                <<[fn |-> "render", ret |-> render(Self).ret]>>)

\* The bits of a byte of the payload are flipped before the reader reads.
FlipPayload(i) ==
  /\ calls # <<>>
  /\ Last.fn = "render"
  /\ offset = 0
  /\ stack = <<>>
  /\ Enter(Returned(Reader([data EXCEPT ![i + 1] = 255 - data[i + 1]],
                           0, <<>>, FALSE), "reader"),
           <<[fn |-> "change"]>>)

Consume(size) == Reading /\ Enter(readBytes(Me, N(size), FALSE), <<>>)

Open == Reading /\ Len(stack) < MaxDepth /\ Enter(start(Me), <<>>)

Create(h) ==
  /\ Reading
  /\ Enter(createChecksum(Me, h),
           <<[fn |-> "createChecksum", h |-> h, before |-> Me,
              ret |-> createChecksum(Me, h).ret,
              threw |-> createChecksum(Me, h).threw]>>)

Verify(h) ==
  /\ Reading
  /\ Enter(verifyChecksum(Me, h),
           <<[fn |-> "verifyChecksum", h |-> h, before |-> Me,
              ret |-> verifyChecksum(Me, h).ret,
              threw |-> verifyChecksum(Me, h).threw]>>)

NextChecksum ==
  \/ \E value \in Values : Payload8(value)
  \/ \E value \in Chunks : PayloadBytes(value)
  \/ \E h \in Digests : Seal(h)
  \/ Render
  \/ \E i \in 0..(Len(data) - ChecksumSize - 1) : FlipPayload(i)
  \/ \E size \in 0..MaxSize : Consume(size)
  \/ Open
  \/ \E h \in Digests : Create(h)
  \/ \E h \in Digests : Verify(h)

SpecChecksum == InitChecksum /\ [][NextChecksum]_vars

\* The first four bytes of a hash as the number they hold, low byte first.
First4(bytes) == readU32(bytes, 0)

\* The payload the writer had written when writeChecksum was called, and
\* the payload in the buffer the reader reads.
WrittenPayload == calls[1].payload

ReadPayload == SubSeq(data, 1, Len(data) - ChecksumSize)

\* The history ends with fn called on a reader of the rendered buffer.
Ended(fn) == Len(calls) >= 3 /\ Last.fn = fn

\* verifyChecksum(h) was called with the hash of the writeChecksum, with no
\* open span, after the payload was consumed.
Verified ==
  /\ Ended("verifyChecksum")
  /\ Last.h = calls[1].h
  /\ Last.before.stack = <<>>
  /\ Last.before.offset = Len(data) - ChecksumSize

\* C12: when a payload and then writeChecksum(h) are written through a
\* StaticWriter, a reader of the rendered buffer that consumes the payload
\* with no open span and calls verifyChecksum(h) gets the checksum, the
\* first four bytes of h(payload), and ends at offset = data.length; when a
\* payload byte was changed so that the first four bytes of h differ,
\* verifyChecksum throws 'Checksum mismatch.'.  createChecksum(h) returns
\* the first four bytes of h(data[s..offset)), s the start of the innermost
\* open span or 0, and leaves the offset and the stack.
C12_ChecksumRoundTrip ==
  /\ Verified =>
       IF First4(hash(Last.h, ReadPayload)) = First4(hash(Last.h, WrittenPayload))
       THEN /\ ~Last.threw
            /\ Last.ret = First4(hash(Last.h, WrittenPayload))
            /\ offset = Len(data)
       ELSE /\ Last.threw
            /\ Last.ret.type = "EncodingError"
            /\ Last.ret.reason = "Checksum mismatch."
  /\ Ended("createChecksum") =>
       /\ ~Last.threw
       /\ Last.ret =
            First4(hash(Last.h,
                        SubSeq(data,
                               (IF stack = <<>> THEN 0 ELSE stack[Len(stack)]) + 1,
                               offset)))
       /\ offset = Last.before.offset
       /\ stack = Last.before.stack

\* C12: a payload byte was changed, the hash of the payload differs, and
\* verifyChecksum threw.
C12_MismatchThrown ==
  /\ Verified
  /\ calls[3].fn = "change"
  /\ Last.threw
  /\ Last.ret.reason = "Checksum mismatch."

(***************************************************************************)
(* A StaticWriter written to and rendered.  data and offset are its        *)
(* fields.  calls is the log of the calls made on it, each with the bytes  *)
(* it was asked to write; a render ends the log.                           *)
(***************************************************************************)

\* The calls made on a writer before it is rendered.
MaxOps == 2

\* The bytes a fixed-width write is asked to write: the two's complement of
\* the value in the width of the write, low byte first or, for the BE
\* writes, high byte first.
WriteWidth(fn) ==
  CASE fn \in {"writeU8", "writeI8"} -> 1
    [] fn \in {"writeU16", "writeU16BE", "writeI16", "writeI16BE"} -> 2
    [] fn \in {"writeU32", "writeU32BE", "writeI32", "writeI32BE"} -> 4
    [] OTHER -> 8

Backwards(fn) ==
  fn \in {"writeU16BE", "writeU32BE", "writeU64BE", "writeI16BE", "writeI32BE",
          "writeI64BE"}

FixedBytes(fn, value) ==
  IF Backwards(fn) THEN Reverse(Wrap(value, WriteWidth(fn)))
  ELSE Wrap(value, WriteWidth(fn))

\* No render has ended the log.
Unrendered == IF calls = <<>> THEN TRUE ELSE Last.fn # "render"

\* A call with the outcome out, logged with the bytes it was to write.
Log(fn, bytes, out) ==
  /\ Len(calls) < MaxOps
  /\ Unrendered
  /\ out.r.offset >= -MaxStray
  /\ out.r.offset <= Len(data) + MaxStray
  /\ data' = out.r.data
  /\ offset' = out.r.offset
  /\ calls' = Append(calls, [fn |-> fn, bytes |-> bytes, threw |-> out.threw])
  /\ UNCHANGED <<dst, num, stack, zeroCopy>>

LogSeek(off) == Log("seek", <<>>, sw_seek(Self, off))

LogFixed(fn, value, checks) ==
  Log(fn, FixedBytes(fn, value), sw_writeFixed(Self, fn, value, checks))

LogBytes(value) == Log("writeBytes", value, writeBytes(Self, value))

LogFill(value, size) ==
  Log("fill", [i \in 1..size |-> value], sw_fill(Self, value, size))

\* bw.render(), whatever was called before.
LogRender ==
  /\ Unrendered
  /\ data' = render(Self).r.data
  /\ offset' = render(Self).r.offset
  /\ calls' = Append(calls, [fn |-> "render", before |-> Self,
                             ret |-> render(Self).ret,
                             threw |-> render(Self).threw])
  /\ UNCHANGED <<dst, num, stack, zeroCopy>>

InitRender ==
  /\ NoCodec
  /\ calls = <<>>
  /\ stack = <<>>
  /\ zeroCopy = FALSE
  /\ offset = 0
  /\ \E size \in 0..MaxCapacity, fill \in Unwritten : data = [i \in 1..size |-> fill]

NextRender ==
  \/ \E off \in (-MaxSeek)..MaxSeek : LogSeek(off)
  \/ \E fn \in FixedWrites, value \in Values, checks \in BOOLEAN :
       LogFixed(fn, value, checks)
  \/ \E value \in Chunks : LogBytes(value)
  \/ \E value \in Unwritten, size \in (-1)..MaxSize : LogFill(value, size)
  \/ LogRender

SpecRender == InitRender /\ [][NextRender]_vars

\* The bytes of the writes of a log that returned, in the order of the calls.
RECURSIVE Performed(_)
Performed(log) ==
  IF log = <<>> THEN <<>>
  ELSE IF log[1].fn = "render" \/ log[1].threw THEN Performed(Tail(log))
  ELSE log[1].bytes \o Performed(Tail(log))

Rendered == calls # <<>> /\ Last.fn = "render"

\* C13: render() returns the writer's buffer exactly when the offset equals
\* the size of the buffer; otherwise it throws an assertion error and the
\* buffer and the offset stay; after a render that returned, the writer
\* holds the empty buffer and offset 0, and the buffer returned holds, in
\* order, exactly the bytes of the writes performed.
C13_Render ==
  Rendered =>
    IF Last.before.offset = Len(Last.before.data)
    THEN /\ ~Last.threw
         /\ Last.ret = Last.before.data
         /\ data = <<>>
         /\ offset = 0
         /\ Last.ret = Performed(calls)
    ELSE /\ Last.threw
         /\ Last.ret = AssertionError
         /\ data = Last.before.data
         /\ offset = Last.before.offset

\* C13: a writer on which only seek was called has rendered its buffer,
\* no byte of which was written.
C13_RenderedUnwritten ==
  /\ Rendered
  /\ ~Last.threw
  /\ Len(Last.ret) > 0
  /\ Performed(calls) = <<>>
  /\ \A i \in 1..(Len(calls) - 1) : calls[i].fn = "seek"

(***************************************************************************)
(* Strings and floating-point numbers.  A string is the sequence of its    *)
(* UTF-16 code units.  A floating-point number is kept as its two IEEE 754 *)
(* images, f32 and f64, each low byte first.  An encoding is 'hex',        *)
(* 'ascii', 'binary', 'utf8', or "" where the argument is left out.        *)
(***************************************************************************)

\* The value of a hex digit, or -1.
hexDigit(c) ==
  IF c >= 48 /\ c <= 57 THEN c - 48
  ELSE IF c >= 97 /\ c <= 102 THEN c - 87
  ELSE IF c >= 65 /\ c <= 70 THEN c - 55
  ELSE -1

\* The bytes of a hex string: decoding stops at the first pair that is not
\* two hex digits, and a last single digit is left out.
RECURSIVE hexBytes(_)
hexBytes(str) ==
  IF Len(str) < 2 THEN <<>>
  ELSE IF hexDigit(str[1]) < 0 \/ hexDigit(str[2]) < 0 THEN <<>>
  ELSE <<16 * hexDigit(str[1]) + hexDigit(str[2])>> \o hexBytes(SubSeq(str, 3, Len(str)))

\* The UTF-8 bytes of a code unit outside the surrogates.
utf8Unit(c) ==
  IF c < 128 THEN <<c>>
  ELSE IF c < 2048 THEN <<192 + (c \div 64), 128 + (c % 64)>>
  ELSE <<224 + (c \div 4096), 128 + ((c \div 64) % 64), 128 + (c % 64)>>

RECURSIVE utf8Bytes(_)
utf8Bytes(str) ==
  IF str = <<>> THEN <<>> ELSE utf8Unit(str[1]) \o utf8Bytes(Tail(str))

\* Buffer.from(str, enc): 'ascii' and 'binary' keep the low byte of each
\* code unit; no encoding is 'utf8'.
bufferFrom(str, enc) ==
  IF enc = "hex" THEN hexBytes(str)
  ELSE IF enc \in {"ascii", "binary"} THEN [i \in 1..Len(str) |-> str[i] % 256]
  ELSE utf8Bytes(str)

\* Buffer.byteLength(str, enc).
byteLength(str, enc) ==
  IF enc = "hex" THEN Len(str) \div 2
  ELSE IF enc \in {"ascii", "binary"} THEN Len(str)
  ELSE Len(utf8Bytes(str))

\* buf.write(str, off, enc): the bytes of the string that have room go to
\* buf from off on; an offset outside the buffer throws.
bufferWrite(buf, str, off, enc) ==
  IF off < 0 \/ off > Len(buf) THEN RangeError
  ELSE bufferCopy(bufferFrom(str, enc), buf, off, 0, Len(bufferFrom(str, enc)))

\* d[off++] = b for each b of bytes in turn.
store(d, bytes, off) ==
  Wrote([i \in 1..Len(d) |->
           IF i > off /\ i <= off + Len(bytes)
           THEN bytes[i - off] ELSE d[i]],
        off + Len(bytes))

\* lib/encoding.js on a little-endian host: the typed array holds the image
\* low byte first.
writeFloat(d, v, off) == store(d, v.f32, off)

writeFloatBE(d, v, off) == store(d, Reverse(v.f32), off)

writeDouble(d, v, off) == store(d, v.f64, off)

writeDoubleBE(d, v, off) == store(d, Reverse(v.f64), off)

(***************************************************************************)
(* lib/staticwriter.js: the other writes of the StaticWriter               *)
(***************************************************************************)

FloatWrites == {"writeFloat", "writeFloatBE", "writeDouble", "writeDoubleBE"}

StoredFloat(fn, d, v, off) ==
  CASE fn = "writeFloat" -> writeFloat(d, v, off)
    [] fn = "writeFloatBE" -> writeFloatBE(d, v, off)
    [] fn = "writeDouble" -> writeDouble(d, v, off)
    [] fn = "writeDoubleBE" -> writeDoubleBE(d, v, off)

\* Node's writeFloatLE, writeFloatBE, writeDoubleLE and writeDoubleBE called
\* with noAssert, as the integer writes of Node are.
sw_writeFloat(w, fn, value, checks) ==
  IF checks /\ (w.offset < 0 \/ StoredFloat(fn, w.data, value, w.offset).off > Len(w.data))
  THEN Threw(w, RangeError)
  ELSE Moved(w, StoredFloat(fn, w.data, value, w.offset))

\* this.writeBytes(value) after the call that left o.
andWriteBytes(o, value) == IF o.threw THEN o ELSE writeBytes(o.r, value)

sw_writeVarBytes(w, value) ==
  andWriteBytes(sw_writeVarint(w, N(Len(value))), value)

sw_writeString(w, value, enc) ==
  IF Len(value) = 0 THEN Returned(w, "this")
  ELSE Copied(w, bufferWrite(w.data, value, w.offset, enc), byteLength(value, enc))

\* A hash is a buffer, or a string when isString.
sw_writeHash(w, value, isString) ==
  IF ~isString THEN assert(w, Len(value) = 32, writeBytes(w, value))
  ELSE assert(w, Len(value) = 64,
              Copied(w, bufferWrite(w.data, value, w.offset, "hex"), 32))

\* this.data.write(value, this.offset, enc) and this.offset += size after
\* the writeVarint that left o.
andWriteString(o, value, enc) ==
  IF o.threw THEN o
  ELSE Copied(o.r, bufferWrite(o.r.data, value, o.r.offset, enc),
              byteLength(value, enc))

sw_writeVarString(w, value, enc) ==
  IF Len(value) = 0 THEN sw_writeVarint(w, N(0))
  ELSE andWriteString(sw_writeVarint(w, N(byteLength(value, enc))), value, enc)

\* this.writeU8(0) after the writeString that left o.
andWriteZero(o, checks) ==
  IF o.threw THEN o ELSE sw_writeFixed(o.r, "writeU8", N(0), checks)

sw_writeNullString(w, value, enc, checks) ==
  andWriteZero(sw_writeString(w, value, enc), checks)

\* A call of a method of the StaticWriter: op is the method's name and its
\* arguments.
sw_call(w, op, checks) ==
  CASE op.fn \in FixedWrites -> sw_writeFixed(w, op.fn, op.args[1], checks)
    [] op.fn \in FloatWrites -> sw_writeFloat(w, op.fn, op.args[1], checks)
    [] op.fn = "writeVarint" -> sw_writeVarint(w, op.args[1])
    [] op.fn = "writeVarint2" -> sw_writeVarint2(w, op.args[1])
    [] op.fn = "writeBytes" -> writeBytes(w, op.args[1])
    [] op.fn = "writeVarBytes" -> sw_writeVarBytes(w, op.args[1])
    [] op.fn = "copy" -> sw_copy(w, op.args[1], op.args[2], op.args[3])
    [] op.fn = "writeString" -> sw_writeString(w, op.args[1], op.args[2])
    [] op.fn = "writeHash" -> sw_writeHash(w, op.args[1], op.args[2])
    [] op.fn = "writeVarString" -> sw_writeVarString(w, op.args[1], op.args[2])
    [] op.fn = "writeNullString" ->
         sw_writeNullString(w, op.args[1], op.args[2], checks)
    [] op.fn = "writeChecksum" -> writeChecksum(w, op.args[1])
    [] op.fn = "fill" -> sw_fill(w, op.args[1], op.args[2])

(***************************************************************************)
(* SizeWriter (the second module of lib/reader.js).  Its only field is     *)
(* offset; the methods are prefixed sz_.                                   *)
(***************************************************************************)

Sizer(off) == [offset |-> off]

\* this.offset += n; return this.
Counted(s, n) == Returned(Sizer(s.offset + n), "this")

sz_destroy(s) == Returned(Sizer(0), "this")

sz_render(s) == Returned(sz_destroy(s).r, s.offset)

sz_getSize(s) == Returned(s, s.offset)

sz_seek(s, off) == Counted(s, off)

\* The size alone, without the varint before it.
sz_varSizedBare(s, size) == Counted(s, size)

\* this.writeVarint(size) and this.offset += size.
sz_varSized(s, size) == Counted(s, sizeVarint(N(size)) + size)

sz_writeString(s, value, enc) ==
  IF Len(value) = 0 THEN Returned(s, "this") ELSE Counted(s, byteLength(value, enc))

sz_call(s, op) ==
  CASE op.fn \in {"writeU8", "writeI8"} -> Counted(s, 1)
    [] op.fn \in {"writeU16", "writeU16BE", "writeI16", "writeI16BE"} -> Counted(s, 2)
    [] op.fn \in {"writeU32", "writeU32BE", "writeI32", "writeI32BE",
                  "writeFloat", "writeFloatBE"} -> Counted(s, 4)
    [] op.fn \in {"writeU64", "writeU64BE", "writeI64", "writeI64BE",
                  "writeDouble", "writeDoubleBE"} -> Counted(s, 8)
    [] op.fn = "writeVarint" -> Counted(s, sizeVarint(op.args[1]))
    [] op.fn = "writeVarint2" -> Counted(s, sizeVarint2(op.args[1]))
    [] op.fn = "writeBytes" -> Counted(s, Len(op.args[1]))
    [] op.fn = "writeVarBytes" -> sz_varSized(s, Len(op.args[1]))
    [] op.fn = "copy" -> Counted(s, op.args[3] - op.args[2])
    [] op.fn = "writeString" -> sz_writeString(s, op.args[1], op.args[2])
    [] op.fn = "writeHash" -> Counted(s, 32)
    [] op.fn = "writeVarString" ->
         IF Len(op.args[1]) = 0 THEN Counted(s, 1)
         ELSE sz_varSized(s, byteLength(op.args[1], op.args[2]))
    [] op.fn = "writeNullString" ->
         Counted(sz_writeString(s, op.args[1], op.args[2]).r, 1)
    [] op.fn = "writeChecksum" -> Counted(s, 4)
    [] op.fn = "fill" -> Counted(s, op.args[2])

(***************************************************************************)
(* HashWriter.  Its only field is ctx, the digest context it was made      *)
(* with: a context is kept as the bytes its update has consumed, update    *)
(* taking the bytes of its chunk when it is called.  The methods are       *)
(* prefixed hw_.  The scratch buffers POOL8 .. POOL256 are shared by all   *)
(* HashWriters and hold, before a write, whatever the last use left: junk. *)
(***************************************************************************)

Hasher(bytes) == [ctx |-> bytes]

\* What the methods that are not available throw, and what enforce (of the
\* module enforce) throws when its value is false.
NotAvailable == [type |-> "Error", message |-> "Not available."]

TypeError == [type |-> "TypeError"]

hw_enforce(h, value, rest) == IF ~value THEN Threw(h, TypeError) ELSE rest

\* this.ctx.update(chunk); return this.
update(h, chunk) == Returned(Hasher(h.ctx \o chunk), "this")

\* A scratch buffer of size bytes.
pool(size, junk) == [i \in 1..size |-> junk]

\* encoding.<write>(pool, value, 0) and this.ctx.update(pool): res is what
\* the write returned or threw.
updated(h, res) == IF IsErr(res) THEN Threw(h, res) ELSE update(h, res.dst)

hw_writeVarint(h, value, junk) ==
  updated(h, writeVarint(pool(sizeVarint(value), junk), value, 0))

hw_writeVarint2(h, value, junk) ==
  updated(h, writeVarint2(pool(sizeVarint2(value), junk), value, 0))

\* A method called on the writer that the call before left.
andUpdate(o, chunk) == IF o.threw THEN o ELSE update(o.r, chunk)

\* enc == null is 'binary'.
binary(enc) == IF enc = "" THEN "binary" ELSE enc

hw_writeString(h, value, enc) == update(h, bufferFrom(value, binary(enc)))

\* POOL256.write(value, 0, 'hex') returns the number of bytes written.
hw_writeHash(h, value, isString, junk) ==
  IF ~isString THEN hw_enforce(h, Len(value) = 32, update(h, value))
  ELSE hw_enforce(h, Len(hexBytes(value)) >= 32,
                  update(h, bufferWrite(pool(32, junk), value, 0, "hex").data))

hw_fill(h, value, size) ==
  hw_enforce(h, value >= 0 /\ value <= 255,
    hw_enforce(h, size >= 0,
      IF size = 0 THEN Returned(h, "this")
      ELSE update(h, [i \in 1..size |-> value])))

hw_copy(h, value, from, to) ==
  hw_enforce(h, from >= 0,
    hw_enforce(h, to >= 0,
      hw_enforce(h, to >= from, update(h, slice(value, from, to)))))

hw_call(h, op, junk) ==
  CASE op.fn \in FixedWrites ->
         updated(h, Stored(op.fn, pool(WriteWidth(op.fn), junk), op.args[1], 0))
    [] op.fn \in FloatWrites ->
         updated(h, StoredFloat(op.fn,
                                pool(IF op.fn \in {"writeFloat", "writeFloatBE"}
                                     THEN 4 ELSE 8, junk),
                                op.args[1], 0))
    [] op.fn = "writeVarint" -> hw_writeVarint(h, op.args[1], junk)
    [] op.fn = "writeVarint2" -> hw_writeVarint2(h, op.args[1], junk)
    [] op.fn = "writeBytes" -> update(h, op.args[1])
    [] op.fn = "writeVarBytes" ->
         andUpdate(hw_writeVarint(h, N(Len(op.args[1])), junk), op.args[1])
    [] op.fn = "copy" -> hw_copy(h, op.args[1], op.args[2], op.args[3])
    [] op.fn = "writeString" -> hw_writeString(h, op.args[1], op.args[2])
    [] op.fn = "writeHash" -> hw_writeHash(h, op.args[1], op.args[2], junk)
    [] op.fn = "writeVarString" ->
         IF Len(op.args[1]) = 0 THEN hw_writeVarint(h, N(0), junk)
         ELSE andUpdate(hw_writeVarint(h, N(Len(bufferFrom(op.args[1],
                                                           binary(op.args[2])))),
                                       junk),
                        bufferFrom(op.args[1], binary(op.args[2])))
    [] op.fn = "writeNullString" ->
         andUpdate(hw_writeString(h, op.args[1], op.args[2]),
                   writeU8(pool(1, junk), N(0), 0).dst)
    [] op.fn = "writeChecksum" -> Threw(h, NotAvailable)
    [] op.fn = "fill" -> hw_fill(h, op.args[1], op.args[2])

\* final() and render(): ctx.digest() when the context has a digest method,
\* ctx.final() otherwise; either finalizes the context.
hw_final(h, hasDigest) ==
  Returned(h, [of |-> h.ctx, by |-> IF hasDigest THEN "digest" ELSE "final"])

hw_render(h, hasDigest) == hw_final(h, hasDigest)

hw_getSize(h) == Threw(h, NotAvailable)

hw_seek(h, off) == Threw(h, NotAvailable)

hw_destroy(h) == Threw(h, NotAvailable)

(***************************************************************************)
(* One sequence of writes given to the three writers.  A SizeWriter (its   *)
(* offset is num) is given the calls first; its render gives the size      *)
(* (kept in stack) of the StaticWriter (data, offset), which is then given *)
(* the same calls, as is a HashWriter (dst is what its context has         *)
(* consumed).  calls holds the calls with what became of each.             *)
(***************************************************************************)

\* The strings written, each with the encoding it is written in: "a", the
\* hex string "01", and "é" with and without an encoding.
Texts == {<<<<>>, "ascii">>, <<<<97>>, "ascii">>, <<<<48, 49>>, "hex">>,
          <<<<233>>, "binary">>, <<<<233>>, "">>}

\* The number 1 as a float and as a double.
One == [f32 |-> <<0, 0, 128, 63>>, f64 |-> <<0, 0, 0, 0, 0, 0, 240, 63>>]

\* A hash of 32 bytes, and it as a hex string.
Hash32 == [i \in 1..32 |-> i]

HashText == [i \in 1..64 |-> IF i % 2 = 1 THEN 48 + ((i + 1) \div 2) \div 16
                             ELSE IF ((i \div 2) % 16) < 10 THEN 48 + ((i \div 2) % 16)
                             ELSE 87 + ((i \div 2) % 16)]

\* What a call made of a writer: whether it threw, and the offset (or the
\* consumed bytes) before and after it.
Outcome(out, from, to) == [threw |-> out.threw, ret |-> out.ret, from |-> from, to |-> to]

NotCalled == [threw |-> FALSE, ret |-> "none", from |-> 0, to |-> 0]

Sizing == stack = <<>>

\* The calls the StaticWriter and the HashWriter have been given.
RECURSIVE Given(_)
Given(log) ==
  IF log = <<>> THEN 0
  ELSE IF log[1].done THEN 1 + Given(Tail(log)) ELSE 0

Finished == calls # <<>> /\ Last.fn \in {"render", "getSize", "seek", "destroy"}

InitWriters ==
  /\ dst = <<>>
  /\ num = 0
  /\ calls = <<>>
  /\ data = <<>>
  /\ offset = 0
  /\ stack = <<>>
  /\ zeroCopy = FALSE

\* The call fn(args) on the SizeWriter.
Plan(fn, args) ==
  /\ Sizing
  /\ Len(calls) < MaxOps
  /\ num' = sz_call(Sizer(num), [fn |-> fn, args |-> args]).r.offset
  /\ calls' = Append(calls,
       [fn |-> fn, args |-> args, done |-> FALSE,
        sized |-> Outcome(sz_call(Sizer(num), [fn |-> fn, args |-> args]), num,
                          sz_call(Sizer(num), [fn |-> fn, args |-> args]).r.offset),
        static |-> NotCalled, hashed |-> NotCalled])
  /\ UNCHANGED <<dst, data, offset, stack, zeroCopy>>

\* new StaticWriter(sw.render()) and new HashWriter(ctx).
Allocate(fill) ==
  /\ Sizing
  /\ stack' = <<sz_render(Sizer(num)).ret>>
  /\ num' = sz_render(Sizer(num)).r.offset
  /\ data' = [i \in 1..sz_render(Sizer(num)).ret |-> fill]
  /\ offset' = 0
  /\ UNCHANGED <<dst, calls, zeroCopy>>

\* The next call on the StaticWriter and on the HashWriter.
Replay(k, checks, junk) ==
  /\ ~Sizing
  /\ k = Given(calls) + 1
  /\ k <= Len(calls)
  /\ data' = sw_call(Self, calls[k], checks).r.data
  /\ offset' = sw_call(Self, calls[k], checks).r.offset
  /\ dst' = hw_call(Hasher(dst), calls[k], junk).r.ctx
  /\ calls' = [calls EXCEPT ![k] =
       [@ EXCEPT !.done = TRUE,
                 !.static = Outcome(sw_call(Self, calls[k], checks), offset,
                                    sw_call(Self, calls[k], checks).r.offset),
                 !.hashed = Outcome(hw_call(Hasher(dst), calls[k], junk), dst,
                                    hw_call(Hasher(dst), calls[k], junk).r.ctx)]]
  /\ UNCHANGED <<num, stack, zeroCopy>>

Replayed == ~Sizing /\ Given(calls) = Len(calls) /\ ~Finished

\* render() of the three writers after the calls: the second of the
\* SizeWriter.
RenderAll(hasDigest) ==
  /\ Replayed
  /\ data' = render(Self).r.data
  /\ offset' = render(Self).r.offset
  /\ num' = sz_render(Sizer(num)).r.offset
  /\ calls' = Append(calls,
       [fn |-> "render", args |-> <<>>, done |-> TRUE,
        sized |-> Outcome(sz_render(Sizer(num)), num, sz_render(Sizer(num)).r.offset),
        static |-> Outcome(render(Self), offset, render(Self).r.offset),
        hashed |-> Outcome(hw_render(Hasher(dst), hasDigest), dst,
                           hw_render(Hasher(dst), hasDigest).r.ctx)])
  /\ UNCHANGED <<dst, stack, zeroCopy>>

\* getSize(), seek(off) or destroy() of the HashWriter after the calls.
Misuse(fn, out) ==
  /\ Replayed
  /\ dst' = out.r.ctx
  /\ calls' = Append(calls,
       [fn |-> fn, args |-> <<>>, done |-> TRUE, sized |-> NotCalled,
        static |-> NotCalled, hashed |-> Outcome(out, dst, out.r.ctx)])
  /\ UNCHANGED <<num, data, offset, stack, zeroCopy>>

NextWriters ==
  \/ \E fn \in FixedWrites, value \in Values : Plan(fn, <<value>>)
  \/ \E fn \in FloatWrites : Plan(fn, <<One>>)
  \/ \E fn \in {"writeVarint", "writeVarint2"}, value \in Values : Plan(fn, <<value>>)
  \/ \E fn \in {"writeBytes", "writeVarBytes"}, value \in Chunks : Plan(fn, <<value>>)
  \/ \E from \in 0..2, to \in 0..2 : from <= to /\ Plan("copy", <<<<1, 0>>, from, to>>)
  \/ \E fn \in {"writeString", "writeVarString", "writeNullString"}, text \in Texts :
       Plan(fn, text)
  \/ Plan("writeHash", <<Hash32, FALSE>>)
  \/ Plan("writeHash", <<HashText, TRUE>>)
  \/ \E h \in Hashes : Plan("writeChecksum", <<h>>)
  \/ \E value \in Unwritten, size \in 0..MaxSize : Plan("fill", <<value, size>>)
  \/ \E fill \in Unwritten : Allocate(fill)
  \/ \E k \in 1..MaxOps, checks \in BOOLEAN, junk \in Unwritten : Replay(k, checks, junk)
  \/ \E hasDigest \in BOOLEAN : RenderAll(hasDigest)
  \/ Misuse("getSize", hw_getSize(Hasher(dst)))
  \/ \E off \in (-MaxSeek)..MaxSeek : Misuse("seek", hw_seek(Hasher(dst), off))
  \/ Misuse("destroy", hw_destroy(Hasher(dst)))

SpecWriters == InitWriters /\ [][NextWriters]_vars

\* The calls made were among those the three writers all have.
RECURSIVE NoChecksum(_)
NoChecksum(log) ==
  IF log = <<>> THEN TRUE
  ELSE log[1].fn # "writeChecksum" /\ NoChecksum(Tail(log))

\* The count of the SizeWriter when it was rendered.
RECURSIVE CountOf(_)
CountOf(log) ==
  IF log = <<>> THEN 0
  ELSE IF log[Len(log)].fn \in {"render", "getSize", "seek", "destroy"}
  THEN CountOf(SubSeq(log, 1, Len(log) - 1))
  ELSE log[Len(log)].sized.to

Writes ==
  {i \in 1..Len(calls) : calls[i].done /\ calls[i].fn \notin {"getSize", "seek", "destroy"}}

\* The buffer of the StaticWriter: render() takes it from the writer.
StaticBuffer == IF Finished /\ Last.fn = "render" THEN Last.static.ret ELSE data

\* C14: after every sequence of writes (writeChecksum apart) the count of the
\* SizeWriter equals the offset of the StaticWriter after the same writes, so
\* the StaticWriter of the size that SizeWriter.render() returned takes the
\* writes and renders without an assertion failure; that render() returned
\* the count and left the count 0, and a second render() returns 0.
C14_SizeMatches ==
  (~Sizing /\ NoChecksum(calls)) =>
    /\ stack[1] = CountOf(calls)
    /\ num = 0
    /\ sz_render(Sizer(num)).ret = 0
    /\ \A i \in Writes :
         /\ ~calls[i].static.threw
         /\ calls[i].fn # "render" => calls[i].static.to = calls[i].sized.to
    /\ Replayed => offset = stack[1]
    /\ (Finished /\ Last.fn = "render") =>
         /\ Len(Last.static.ret) = stack[1]
         /\ Last.sized.ret = 0

\* A writeVarString and one more write were sized, made and rendered.
C14_SizedAndRendered ==
  /\ Finished
  /\ Last.fn = "render"
  /\ Len(calls) = MaxOps + 1
  /\ NoChecksum(calls)
  /\ calls[1].fn = "writeVarString"
  /\ stack[1] = 4
  /\ Len(Last.static.ret) = 4
  /\ Last.sized.ret = 0

\* C15: for every sequence of writes that both writers have, the chunks the
\* HashWriter gave to update(), in the order of the calls, are together the
\* buffer the StaticWriter of the right size renders, and render() returns
\* what the context's digest() or final() returned.
C15_HashMatches ==
  (~Sizing /\ NoChecksum(calls)) =>
    /\ \A i \in Writes :
         /\ ~calls[i].hashed.threw
         /\ calls[i].fn # "render" =>
              calls[i].hashed.to = slice(StaticBuffer, 0, calls[i].static.to)
    /\ (Finished /\ Last.fn = "render") =>
         /\ Last.hashed.ret.of = Last.static.ret
         /\ Last.hashed.ret.by \in {"digest", "final"}

\* writeString("é") was given to both writers and both were rendered.
C15_Latin1Hashed ==
  /\ Finished
  /\ Last.fn = "render"
  /\ Len(calls) = 2
  /\ calls[1].fn = "writeString"
  /\ calls[1].args = <<<<233>>, "">>
  /\ Last.static.ret = <<195, 169>>
  /\ Last.hashed.ret.of = <<233>>

Refused(o) == o.threw /\ o.ret = NotAvailable /\ o.to = o.from

\* C16: writeChecksum of the HashWriter and of the SizeWriter throws an error
\* that says the operation is not there and changes nothing, and so do
\* getSize, seek and destroy of the HashWriter.
C16_Unsupported ==
  \A i \in 1..Len(calls) :
    /\ calls[i].fn = "writeChecksum" =>
         /\ Refused(calls[i].sized)
         /\ calls[i].done => Refused(calls[i].hashed)
    /\ calls[i].fn \in {"getSize", "seek", "destroy"} => Refused(calls[i].hashed)

\* writeChecksum of a SizeWriter returned and counted four bytes.
C16_ChecksumCounted ==
  /\ calls # <<>>
  /\ Last.fn = "writeChecksum"
  /\ ~Last.sized.threw
  /\ Last.sized.to = Last.sized.from + ChecksumSize

(***************************************************************************)
(* Two StaticWriters and the memory their buffers are in.  data is the     *)
(* memory, a sequence of allocations; num is the place of POOL in it, 0    *)
(* while POOL is null; stack holds the writers, each with the allocation   *)
(* its buffer is a slice of (0 for EMPTY), the slice's length and the      *)
(* writer's offset; calls holds the buffers that render() returned.        *)
(***************************************************************************)

\* POOLSIZE of the source is 100 << 10; the pool is kept at this size.
POOLSIZE == 2

MaxWriters == 2

InitOwners ==
  /\ dst = <<>>
  /\ num = 0
  /\ calls = <<>>
  /\ data = <<>>
  /\ offset = 0
  /\ stack = <<>>
  /\ zeroCopy = FALSE

\* The bytes of a buffer: the first size bytes of its allocation.
Bytes(buf) == IF buf.mem = 0 THEN <<>> ELSE SubSeq(data[buf.mem], 1, buf.size)

View(k) == Writer(Bytes(stack[k]), stack[k].offset)

\* new StaticWriter(size).
New(size, fill) ==
  /\ Len(stack) < MaxWriters
  /\ IF size = 0
     THEN /\ stack' = Append(stack, [mem |-> 0, size |-> 0, offset |-> 0])
          /\ data' = data
     ELSE /\ stack' = Append(stack, [mem |-> Len(data) + 1, size |-> size, offset |-> 0])
          /\ data' = Append(data, [i \in 1..size |-> fill])
  /\ UNCHANGED <<dst, num, calls, offset, zeroCopy>>

\* StaticWriter.pool(size).
Pool(size, fill) ==
  IF size <= POOLSIZE
  THEN /\ Len(stack) < MaxWriters
       /\ IF num = 0
          THEN /\ data' = Append(data, [i \in 1..POOLSIZE |-> fill])
               /\ num' = Len(data) + 1
          ELSE UNCHANGED <<data, num>>
       /\ stack' = Append(stack, [mem |-> num', size |-> size, offset |-> 0])
       /\ UNCHANGED <<dst, calls, offset, zeroCopy>>
  ELSE New(size, fill)

\* The memory with the buffer of writer k holding bytes.
Kept(k, bytes) ==
  IF stack[k].mem = 0 THEN data
  ELSE [data EXCEPT ![stack[k].mem] =
         [i \in 1..Len(@) |-> IF i <= stack[k].size THEN bytes[i] ELSE @[i]]]

\* A call of writer k that gave out.
Own(k, out) ==
  /\ k <= Len(stack)
  /\ Len(out.r.data) = stack[k].size
  /\ out.r.offset <= POOLSIZE + 1
  /\ data' = Kept(k, out.r.data)
  /\ stack' = [stack EXCEPT ![k].offset = out.r.offset]
  /\ UNCHANGED <<dst, num, calls, offset, zeroCopy>>

\* render() of writer k.
OwnRender(k) ==
  /\ k <= Len(stack)
  /\ Len(calls) < MaxWriters
  /\ IF render(View(k)).threw
     THEN UNCHANGED <<stack, calls>>
     ELSE /\ stack' = [stack EXCEPT ![k] = [mem |-> 0, size |-> 0, offset |-> 0]]
          /\ calls' = Append(calls, [mem |-> stack[k].mem, size |-> stack[k].size])
  /\ UNCHANGED <<dst, num, data, offset, zeroCopy>>

NextOwners ==
  \/ \E size \in 0..(POOLSIZE + 1), fill \in Unwritten : New(size, fill)
  \/ \E size \in 0..(POOLSIZE + 1), fill \in Unwritten : Pool(size, fill)
  \/ \E k \in 1..MaxWriters, value \in Values : Own(k, sw_writeFixed(View(k), "writeU8", value, TRUE))
  \/ \E k \in 1..MaxWriters, value \in Chunks : Own(k, writeBytes(View(k), value))
  \/ \E k \in 1..MaxWriters : OwnRender(k)

SpecOwners == InitOwners /\ [][NextOwners]_vars

\* C17: a call of one writer changes no byte of the buffer of another
\* writer, two writers of StaticWriter.pool included, and no byte of a
\* buffer that render() has returned.
C17_ExclusiveOwner ==
  [][/\ \A k \in 1..Len(stack) : stack'[k] = stack[k] => Bytes(stack[k])' = Bytes(stack[k])
     /\ \A j \in 1..Len(calls) : Bytes(calls[j])' = Bytes(calls[j])]_vars

\* Two writers of the pool are live and the buffer of the second, which has
\* written nothing, holds a byte that the first wrote.
C17_PoolShared ==
  /\ Len(stack) = 2
  /\ num # 0
  /\ stack[1].mem = num
  /\ stack[2].mem = num
  /\ stack[1].offset > 0
  /\ stack[2].offset = 0
  /\ stack[2].size > 0
  /\ Bytes(stack[2])[1] \in {1, 253}

(***************************************************************************)
(* The bit-packed varint under call, at and beyond 2^53-1                  *)
(***************************************************************************)

\* The longest run of continuation bytes in an input of readVarint2.
MaxRun == 8

\* Numbers above 2^53-1 that a JavaScript number holds exactly.
Beyond == {Pow2(SafeBits), Add(Pow2(SafeBits), N(2)), Pow2(SafeBits + 7)}

\* Inputs of readVarint2: a run of equal continuation bytes and a last byte
\* without the continuation bit.
Varint2Bufs ==
  {[i \in 1..(k + 1) |-> IF i <= k THEN c ELSE t] :
     k \in 0..MaxRun, c \in {128, 129, 255}, t \in {0, 1, 127}}

InitVarint2 ==
  /\ calls = <<>>
  /\ NoObject
  /\ \/ dst \in {Blank(f) : f \in Fills} /\ num \in VarintNums \cup Beyond
     \/ dst \in Varint2Bufs /\ num = NoNum

NextVarint2 ==
  \/ \E off \in 0..MaxOff : Write("writeVarint2", off, 0)
  \/ \E off \in 0..MaxOff : Read("readVarint2", off, 0)
  \/ \E fill \in Fills : Rewrite("writeVarint2", fill)

SpecVarint2 == InitVarint2 /\ [][NextVarint2]_vars

\* The number that the bytes from off on stand for in the format, whatever
\* its size: each byte gives seven bits, most significant first, and one is
\* added after every byte that has the continuation bit.  NoNum when the
\* bytes end before a byte without that bit.
RECURSIVE StoodFor(_, _, _)
StoodFor(bytes, off, acc) ==
  IF off >= Len(bytes) THEN NoNum
  ELSE IF bytes[off + 1] < 128 THEN Add(Mul(acc, N(128)), N(bytes[off + 1]))
  ELSE StoodFor(bytes, off + 1, Add(Add(Mul(acc, N(128)), N(bytes[off + 1] - 128)), N(1)))

Exceeds(c) ==
  /\ c.threw
  /\ c.ret.type = "EncodingError"
  /\ c.ret.reason = "Number exceeds 2^53-1"

\* C18: readVarint2 throws the EncodingError 'Number exceeds 2^53-1' on
\* every input that stands for a number above 2^53-1 and returns no such
\* number, and writeVarint2 of a number above 2^53-1 throws that error and
\* writes nothing.
C18_BothDirectionsBounded ==
  \A i \in DOMAIN calls :
    /\ calls[i].fn = "readVarint2" =>
         /\ (/\ StoodFor(calls[i].in, calls[i].off, N(0)) # NoNum
             /\ Lt(MAX_SAFE_INTEGER, StoodFor(calls[i].in, calls[i].off, N(0))))
            => Exceeds(calls[i])
         /\ ~calls[i].threw =>
              /\ Le(calls[i].ret.value, MAX_SAFE_INTEGER)
              /\ calls[i].ret.value = StoodFor(calls[i].in, calls[i].off, N(0))
    /\ (calls[i].fn = "writeVarint2" /\ num # NoNum /\ Lt(MAX_SAFE_INTEGER, num)) =>
         /\ Exceeds(calls[i])
         /\ dst = calls[i].in

\* writeVarint2 of 2^53 returned and left its bytes in the buffer.
C18_WroteBeyond ==
  /\ Len(calls) = 1
  /\ calls[1].fn = "writeVarint2"
  /\ num = Pow2(SafeBits)
  /\ ~calls[1].threw
  /\ calls[1].ret > calls[1].off
  /\ dst # calls[1].in

\* C19: readVarint2 accepts one form of a number only: when it accepts its
\* input and returns (size, value), writeVarint2 of value writes the size
\* bytes it accepted, so that two inputs it accepts with the same value
\* are the same bytes.
C19_OneForm ==
  (Len(calls) = 2 /\ calls[1].fn = "readVarint2" /\ calls[2].fn = "writeVarint2") =>
    /\ ~calls[2].threw
    /\ calls[2].ret = calls[1].ret.size
    /\ Written(calls[2], dst)
         = SubSeq(calls[1].in, calls[1].off + 1, calls[1].off + calls[1].ret.size)

\* The inputs that readVarint2 accepts from the first byte to the last, each
\* with the value returned.
Accepted2 ==
  {<<b, readVarint2(b, 0).value>> :
     b \in {a \in Varint2Bufs : IF IsErr(readVarint2(a, 0)) THEN FALSE
                                ELSE readVarint2(a, 0).size = Len(a)}}

\* C19: two different inputs of readVarint2, each accepted from its first
\* byte to its last, have the same value.
C19_TwoForms ==
  \E a \in Accepted2, b \in Accepted2 : a[1] # b[1] /\ a[2] = b[2]

\* A form of three bytes that begins with the byte 0x80 was accepted and
\* written back.
C19_PaddedFormRewritten ==
  /\ Len(calls) = 2
  /\ calls[1].fn = "readVarint2" /\ calls[2].fn = "writeVarint2"
  /\ calls[1].off = 0
  /\ calls[1].in = <<128, 128, 0>>
  /\ calls[1].ret.size = 3
  /\ ~calls[2].threw

\* The reads of seven and of eight bytes among the calls.
WideReads ==
  {i \in DOMAIN calls : calls[i].fn \in ReadFns /\ calls[i].len \in {7, 8}}

\* C20: an EncodingError that a read of seven or of eight bytes throws for a
\* value beyond the bound has the offset the read was made at as its offset
\* and 'Number exceeds 2^53-1' as its reason.
C20_ErrorFields ==
  \A i \in WideReads :
    calls[i].threw =>
      /\ calls[i].ret.type = "EncodingError"
      /\ calls[i].ret.reason = "Number exceeds 2^53-1"
      /\ calls[i].ret.offset = calls[i].off

\* A signed read of eight bytes has thrown an error whose offset is the
\* reason string and whose reason is undefined.
C20_ReasonAsOffset ==
  /\ calls # <<>>
  /\ calls[Len(calls)].fn \in {"readI", "readIBE", "readI64"}
  /\ calls[Len(calls)].len = 8
  /\ calls[Len(calls)].threw
  /\ calls[Len(calls)].ret.reason = "undefined"
  /\ calls[Len(calls)].ret.offset = "Number exceeds 2^53-1"

(***************************************************************************)
(* The generic codec functions called with a length that is no width       *)
(***************************************************************************)

\* Lengths outside 1..8.
BadWidths == {-1, 0, 9}

GenericWrites == {"writeU", "writeUBE", "writeI", "writeIBE"}

GenericReads == {"readU", "readUBE", "readI", "readIBE"}

NextLength ==
  \/ \E fn \in GenericWrites, off \in 0..MaxOff, len \in BadWidths : Write(fn, off, len)
  \/ \E fn \in GenericReads, off \in 0..MaxOff, len \in BadWidths : Read(fn, off, len)

SpecLength == InitCodec /\ [][NextLength]_vars

\* C21: a generic read or write called with a length outside 1..8 throws an
\* EncodingError whose offset is the offset it was called with, and the
\* write leaves every byte of the buffer as it was.
C21_InvalidLength ==
  \A i \in DOMAIN calls :
    calls[i].len \notin Widths =>
      /\ calls[i].threw
      /\ calls[i].ret.type = "EncodingError"
      /\ calls[i].ret.reason \in {"Invalid read length", "Invalid write length"}
      /\ calls[i].ret.offset = calls[i].off
      /\ dst = calls[i].in

\* writeI was called with the length 9 at offset 1 and readI likewise after
\* it, and both threw.
C21_NineRefused ==
  /\ Len(calls) = 2
  /\ calls[1].fn = "writeI" /\ calls[2].fn = "readI"
  /\ calls[1].len = 9 /\ calls[2].len = 9
  /\ calls[1].off = 1
  /\ calls[1].threw /\ calls[2].threw
  /\ calls[2].ret.reason = "Invalid read length"

(***************************************************************************)
(* Properties of the strings read                                          *)
(***************************************************************************)

\* The length prefix that a recorded readVarString met.
Prefix(c) == readVarint(c.before.data, c.before.offset)

\* C22: readVarString(enc, limit) with a limit of 0 or more throws the
\* EncodingError 'String exceeds limit' when the length prefix is greater
\* than the limit, with no byte after the prefix consumed; when the prefix is
\* at most the limit and that many bytes remain it returns the string of
\* those bytes and the offset has advanced by the prefix and the bytes.
C22_VarStringLimit ==
  (calls # <<>> /\ calls[1].fn = "readVarString" /\ ~IsErr(Prefix(calls[1]))) =>
    /\ Lt(N(calls[1].args[2]), Prefix(calls[1]).value) =>
         /\ calls[1].threw
         /\ calls[1].ret.type = "EncodingError"
         /\ calls[1].ret.reason \in {"String exceeds limit", "String exceeds limit."}
         /\ offset <= calls[1].before.offset + Prefix(calls[1]).size
    /\ (/\ Le(Prefix(calls[1]).value, N(calls[1].args[2]))
        /\ Le(Add(N(calls[1].before.offset + Prefix(calls[1]).size),
                  Prefix(calls[1]).value), N(Len(data)))) =>
         /\ ~calls[1].threw
         /\ calls[1].ret
              = toString(data, calls[1].args[1],
                         calls[1].before.offset + Prefix(calls[1]).size,
                         calls[1].before.offset + Prefix(calls[1]).size
                           + AsInt(Prefix(calls[1]).value))
         /\ offset = calls[1].before.offset + Prefix(calls[1]).size
                       + AsInt(Prefix(calls[1]).value)

\* readVarString with the limit 0 met the prefix 1 and returned a string of
\* one byte.
C22_ZeroLimitPassed ==
  /\ calls # <<>>
  /\ calls[1].fn = "readVarString"
  /\ calls[1].args[2] = 0
  /\ Prefix(calls[1]) = Varint(1, N(1))
  /\ ~calls[1].threw
  /\ Len(calls[1].ret) >= 1
  /\ offset = calls[1].before.offset + 2

(***************************************************************************)
(* A reader of buffers with and without zero bytes                         *)
(***************************************************************************)

\* Buffers with no zero byte, with one, and with several.
NullData ==
  {<<>>, <<0>>, <<97>>, <<97, 0>>, <<0, 97>>, <<97, 98>>, <<97, 0, 98>>,
   <<97, 0, 98, 0>>, <<0, 0, 200>>, <<200, 201, 0, 97>>}

InitNull ==
  /\ NoCodec
  /\ calls = <<>>
  /\ data \in NullData
  /\ offset = 0
  /\ stack = <<>>
  /\ zeroCopy \in BOOLEAN

NextNull ==
  \/ \E off \in (-MaxSeek)..MaxSeek : Seek(off)
  \/ Start
  \/ ReadFixed("readU8")
  \/ \E enc \in Encodings : ReadNullString(enc)

SpecNull == InitNull /\ [][NextNull]_vars

\* The places of the zero bytes of d at or after o.
Zeros(d, o) == {j \in o..(Len(d) - 1) : d[j + 1] = 0}

FirstZero(d, o) == CHOOSE j \in Zeros(d, o) : \A k \in Zeros(d, o) : j <= k

\* C23: readNullString of a reader at offset o returns the string of the
\* bytes data[o..i), i the place of the first zero byte at or after o, and
\* leaves the offset at i + 1; with no zero byte in data[o..length) it throws
\* a bounds error and leaves the offset at o.
C23_NullString ==
  (Observed /\ calls[1].fn = "readNullString") =>
    /\ data = calls[1].before.data
    /\ stack = calls[1].before.stack
    /\ IF Zeros(data, calls[1].before.offset) # {}
       THEN /\ ~calls[1].threw
            /\ calls[1].ret
                 = toString(data, calls[1].args[1], calls[1].before.offset,
                            FirstZero(data, calls[1].before.offset))
            /\ offset = FirstZero(data, calls[1].before.offset) + 1
       ELSE /\ calls[1].threw
            /\ calls[1].ret = EncodingError(calls[1].before.offset, "Out of bounds read")
            /\ offset = calls[1].before.offset

\* readNullString at offset 2 of [61 00 62 00] has returned "b" and left
\* the offset at 4.
C23_SecondString ==
  /\ Observed
  /\ calls[1].fn = "readNullString"
  /\ calls[1].args[1] = "ascii"
  /\ data = <<97, 0, 98, 0>>
  /\ calls[1].before.offset = 2
  /\ calls[1].ret = <<98>>
  /\ offset = 4

(***************************************************************************)
(* A reader that is destroyed and used again.  dst is the buffer the       *)
(* reader was made with, data the buffer the reader holds; calls holds the *)
(* call of destroy and the call made after it.                             *)
(***************************************************************************)

InitDestroy ==
  /\ dst \in SampleData
  /\ num = NoNum
  /\ calls = <<>>
  /\ data = dst
  /\ offset = 0
  /\ stack = <<>>
  /\ zeroCopy \in BOOLEAN

\* What a call that gave out leaves of the reader.
Left(out) ==
  /\ data' = out.r.data
  /\ offset' = out.r.offset
  /\ stack' = out.r.stack
  /\ zeroCopy' = out.r.zeroCopy
  /\ UNCHANGED <<dst, num>>

\* A call before destroy().
Prior(out) == calls = <<>> /\ Left(out) /\ UNCHANGED calls

\* destroy().
Dispose ==
  /\ calls = <<>>
  /\ Left(destroy(Me))
  /\ calls' = <<[fn |-> "destroy", args |-> <<>>, before |-> Me,
                 ret |-> destroy(Me).ret, threw |-> destroy(Me).threw]>>

\* The call fn(args) after destroy().
Later(fn, args, out) ==
  /\ Len(calls) = 1
  /\ Left(out)
  /\ calls' = Append(calls, [fn |-> fn, args |-> args, before |-> Me,
                             ret |-> out.ret, threw |-> out.threw])

NextDestroy ==
  \/ \E off \in (-MaxSeek)..MaxSeek : Prior(seek(Me, off))
  \/ Len(stack) < MaxDepth /\ Prior(start(Me))
  \/ Prior(end(Me))
  \/ \E fn \in FixedReads : Prior(readFixed(Me, fn))
  \/ Dispose
  \/ Later("end", <<>>, end(Me))
  \/ \E zc \in BOOLEAN : Later("endData", <<zc>>, endData(Me, zc))
  \/ \E fn \in FixedReads : Later(fn, <<>>, readFixed(Me, fn))
  \/ Later("readVarint", <<>>, br_readVarint(Me))
  \/ Later("readVarint2", <<>>, br_readVarint2(Me))
  \/ \E size \in 0..MaxSize, zc \in BOOLEAN :
       Later("readBytes", <<size, zc>>, readBytes(Me, N(size), zc))
  \/ \E zc \in BOOLEAN : Later("readVarBytes", <<zc>>, readVarBytes(Me, zc))
  \/ \E enc \in Encodings, size \in 0..MaxSize :
       Later("readString", <<enc, size>>, readString(Me, enc, N(size)))
  \/ \E enc \in Encodings \cup {""} : Later("readHash", <<enc>>, readHash(Me, enc))
  \/ \E enc \in Encodings, limit \in 0..1 :
       Later("readVarString", <<enc, limit>>, readVarString(Me, enc, limit))
  \/ \E enc \in Encodings : Later("readNullString", <<enc>>, readNullString(Me, enc))
  \/ \E h \in Hashes : Later("verifyChecksum", <<h>>, verifyChecksum(Me, h))

SpecDestroy == InitDestroy /\ [][NextDestroy]_vars

\* The recorded read asks for at least one byte.
AsksForBytes(c) ==
  /\ c.fn \in ReaderReads
  /\ c.fn = "readBytes" => c.args[1] >= 1
  /\ c.fn = "readString" => c.args[2] >= 1

\* C24: after destroy(), whatever the reader was, the reader holds an empty
\* buffer, its offset is 0 and its span stack is empty; a read of at least
\* one byte made then throws a bounds error, end() and endData() throw, and
\* the bytes of the buffer the reader was made with are unchanged.
C24_Destroyed ==
  calls # <<>> =>
    /\ ~calls[1].threw
    /\ dst = calls[1].before.data
    /\ Len(calls) = 1 => (data = <<>> /\ offset = 0 /\ stack = <<>>)
    /\ Len(calls) = 2 =>
         /\ AsksForBytes(calls[2]) =>
              /\ calls[2].threw
              /\ calls[2].ret.type = "EncodingError"
              /\ calls[2].ret.reason = "Out of bounds read"
         /\ calls[2].fn \in {"end", "endData"} => calls[2].threw

\* A reader with two open spans and its offset at 2 was destroyed, and
\* end() has thrown after that.
C24_EndAfterDestroy ==
  /\ Len(calls) = 2
  /\ Len(calls[1].before.stack) = 2
  /\ calls[1].before.offset = 2
  /\ calls[2].fn = "end"
  /\ calls[2].threw
  /\ data = <<>>

(***************************************************************************)
(* HashWriter of unnamed/part_002, the oldest of the versions.  Its        *)
(* methods are prefixed hw2_.  The writes of up to 32 bits are those of    *)
(* Node's Buffer, which store the bytes that the writes of encoding store. *)
(***************************************************************************)

\* this.ctx.update(chunk), and no return statement.
consume(h, chunk) == Returned(Hasher(h.ctx \o chunk), "undefined")

consumed(h, res) == IF IsErr(res) THEN Threw(h, res) ELSE consume(h, res.dst)

andConsume(o, chunk) == IF o.threw THEN o ELSE consume(o.r, chunk)

hw2_writeVarint(h, value, junk) ==
  consumed(h, writeVarint(pool(sizeVarint(value), junk), value, 0))

hw2_writeString(h, value, enc) ==
  IF Len(value) = 0 THEN Returned(h, "undefined")
  ELSE consume(h, bufferFrom(value, enc))

hw2_writeHash(h, value, isString, junk) ==
  IF ~isString THEN assert(h, Len(value) = 32, consume(h, value))
  ELSE assert(h, Len(value) = 64,
              consume(h, bufferWrite(pool(32, junk), value, 0, "hex").data))

hw2_fill(h, value, size) ==
  assert(h, size >= 0,
         IF size = 0 THEN Returned(h, "undefined")
         ELSE consume(h, [i \in 1..size |-> value]))

hw2_call(h, op, junk) ==
  CASE op.fn \in FixedWrites ->
         consumed(h, Stored(op.fn, pool(WriteWidth(op.fn), junk), op.args[1], 0))
    [] op.fn \in FloatWrites ->
         consumed(h, StoredFloat(op.fn,
                                 pool(IF op.fn \in {"writeFloat", "writeFloatBE"}
                                      THEN 4 ELSE 8, junk),
                                 op.args[1], 0))
    [] op.fn = "writeVarint" -> hw2_writeVarint(h, op.args[1], junk)
    [] op.fn = "writeVarint2" ->
         consumed(h, writeVarint2(pool(sizeVarint2(op.args[1]), junk), op.args[1], 0))
    [] op.fn = "writeBytes" -> consume(h, op.args[1])
    [] op.fn = "writeVarBytes" ->
         andConsume(hw2_writeVarint(h, N(Len(op.args[1])), junk), op.args[1])
    [] op.fn = "copy" -> consume(h, slice(op.args[1], op.args[2], op.args[3]))
    [] op.fn = "writeString" -> hw2_writeString(h, op.args[1], op.args[2])
    [] op.fn = "writeHash" -> hw2_writeHash(h, op.args[1], op.args[2], junk)
    [] op.fn = "writeVarString" ->
         IF Len(op.args[1]) = 0 THEN hw2_writeVarint(h, N(0), junk)
         ELSE andConsume(hw2_writeVarint(h, N(byteLength(op.args[1], op.args[2])), junk),
                         bufferFrom(op.args[1], op.args[2]))
    [] op.fn = "writeNullString" ->
         andConsume(hw2_writeString(h, op.args[1], op.args[2]),
                    Stored("writeU8", pool(1, junk), N(0), 0).dst)
    [] op.fn = "writeChecksum" -> Threw(h, NotAvailable)
    [] op.fn = "fill" -> hw2_fill(h, op.args[1], op.args[2])

(***************************************************************************)
(* A chain of calls, w.f(..).g(..), on a StaticWriter (data, offset), a    *)
(* SizeWriter (num), the HashWriter of part_004 (dst) and the HashWriter   *)
(* of part_002 (stack): each call is made on what the call before it       *)
(* returned.  calls holds what each call gave on each writer.              *)
(***************************************************************************)

Kinds == {"static", "sized", "hashed", "hashed2"}

InitChain ==
  /\ dst = <<>>
  /\ num = 0
  /\ calls = <<>>
  /\ data \in {[i \in 1..MaxStray |-> fill] : fill \in Unwritten}
  /\ offset = 0
  /\ stack = <<>>
  /\ zeroCopy = FALSE

\* What the next call of the chain is made on: the writer, undefined, or
\* nothing when the call before threw and ended the chain.
Receiver(kind) ==
  IF calls = <<>> THEN "this"
  ELSE IF Last[kind].threw THEN "none"
  ELSE Last[kind].ret

\* The call that gives out, made on the receiver; w is the writer.
On(kind, w, out) ==
  CASE Receiver(kind) = "this" -> out
    [] Receiver(kind) = "undefined" -> Threw(w, TypeError)
    [] OTHER -> Returned(w, "none")

\* The call recorded with what it gave on each of the four writers.
Linked(fn, args, a, b, c, d) ==
  /\ data' = a.r.data
  /\ offset' = a.r.offset
  /\ num' = b.r.offset
  /\ dst' = c.r.ctx
  /\ stack' = d.r.ctx
  /\ calls' = Append(calls,
       [fn |-> fn, args |-> args,
        static |-> [threw |-> a.threw, ret |-> a.ret],
        sized |-> [threw |-> b.threw, ret |-> b.ret],
        hashed |-> [threw |-> c.threw, ret |-> c.ret],
        hashed2 |-> [threw |-> d.threw, ret |-> d.ret]])
  /\ UNCHANGED zeroCopy

Chain(fn, args, checks, junk) ==
  /\ Len(calls) < MaxOps
  /\ \E a \in {On("static", Self, sw_call(Self, [fn |-> fn, args |-> args], checks))},
        b \in {On("sized", Sizer(num), sz_call(Sizer(num), [fn |-> fn, args |-> args]))},
        c \in {On("hashed", Hasher(dst),
                  hw_call(Hasher(dst), [fn |-> fn, args |-> args], junk))},
        d \in {On("hashed2", Hasher(stack),
                  hw2_call(Hasher(stack), [fn |-> fn, args |-> args], junk))} :
       Linked(fn, args, a, b, c, d)

NextChain ==
  \/ \E fn \in FixedWrites, value \in Values, checks \in BOOLEAN, junk \in Unwritten :
       Chain(fn, <<value>>, checks, junk)
  \/ \E fn \in FloatWrites, checks \in BOOLEAN : Chain(fn, <<One>>, checks, 0)
  \/ \E fn \in {"writeVarint", "writeVarint2"}, value \in Values : Chain(fn, <<value>>, TRUE, 0)
  \/ \E fn \in {"writeBytes", "writeVarBytes"}, value \in Chunks : Chain(fn, <<value>>, TRUE, 0)
  \/ \E from \in 0..2, to \in 0..2 : from <= to /\ Chain("copy", <<<<1, 0>>, from, to>>, TRUE, 0)
  \/ \E fn \in {"writeString", "writeVarString", "writeNullString"}, text \in Texts :
       Chain(fn, text, TRUE, 0)
  \/ \E junk \in Unwritten : Chain("writeHash", <<Hash32, FALSE>>, TRUE, junk)
  \/ \E junk \in Unwritten : Chain("writeHash", <<HashText, TRUE>>, TRUE, junk)
  \/ \E h \in Hashes : Chain("writeChecksum", <<h>>, TRUE, 0)
  \/ \E value \in Unwritten, size \in 0..MaxSize : Chain("fill", <<value, size>>, TRUE, 0)

SpecChain == InitChain /\ [][NextChain]_vars

\* C25: a write of a StaticWriter, of a SizeWriter or of a HashWriter, of
\* whatever version, returns the writer it was called on when it returns.
C25_WritesReturnWriter ==
  \A i \in DOMAIN calls : \A kind \in Kinds :
    ~calls[i][kind].threw => calls[i][kind].ret \in {"this", "none"}

\* writeU8 of the HashWriter of part_002 returned undefined, and the call
\* chained to it threw a TypeError.
C25_ChainBroken ==
  /\ Len(calls) = 2
  /\ calls[1].fn = "writeU8"
  /\ ~calls[1].hashed2.threw
  /\ calls[1].hashed2.ret = "undefined"
  /\ calls[2].hashed2.threw
  /\ calls[2].hashed2.ret = TypeError
  /\ ~calls[2].static.threw
  /\ calls[2].static.ret = "this"

(***************************************************************************)
(* The frame of the generic writes.                                        *)
(***************************************************************************)

GenericWidthWrites == {"writeU", "writeUBE", "writeI", "writeIBE"}

\* The bytes of the buffer that differ from what they were before the call.
Modified(c) == {i \in 0..(Len(dst) - 1) : dst[i + 1] # c.in[i + 1]}

\* C26: a generic write of width len that returns modifies only the bytes
\* from off up to off + len, and returns off + len.
C26_WriteFrame ==
  \A i \in DOMAIN calls :
    (calls[i].fn \in GenericWidthWrites /\ ~calls[i].threw) =>
      /\ calls[i].ret = calls[i].off + calls[i].len
      /\ Modified(calls[i]) \subseteq calls[i].off..(calls[i].off + calls[i].len - 1)

\* The claim without writeI, which is the one that fails it.
C26_OthersFramed ==
  \A i \in DOMAIN calls :
    (calls[i].fn \in GenericWidthWrites \ {"writeI"} /\ ~calls[i].threw) =>
      /\ calls[i].ret = calls[i].off + calls[i].len
      /\ Modified(calls[i]) \subseteq calls[i].off..(calls[i].off + calls[i].len - 1)

\* writeI of three bytes wrote four and returned off + 4.
C26_FourBytesForThree ==
  /\ Len(calls) = 1
  /\ calls[1].fn = "writeI"
  /\ calls[1].len = 3
  /\ ~calls[1].threw
  /\ calls[1].ret = calls[1].off + 4
  /\ calls[1].off + 3 \in Modified(calls[1])

(***************************************************************************)
(* The fixed-width reads and writes called by name: a write of a number    *)
(* of 32 bits or of its negative into a fresh buffer and a signed read of  *)
(* what it wrote, or a signed read of eight sampled bytes.                 *)
(***************************************************************************)

\* The integers v of the samples with -2^31 <= v < 2^32.
Int32s == {v \in SampleNums : Le(Neg(Pow2(31)), v) /\ Lt(v, Pow2(32))}

\* The widths and byte orders that have a function: there is no big-endian
\* function of one byte.
Shaped(len, be) == len > 1 \/ ~be

\* writeU8 .. writeU32BE and writeI8 .. writeI32BE.
FixedWriteOf(signed, len, be, d, v, off) ==
  CASE len = 1 -> IF signed THEN writeI8(d, v, off) ELSE writeU8(d, v, off)
    [] len = 2 /\ ~be -> IF signed THEN writeI16(d, v, off) ELSE writeU16(d, v, off)
    [] len = 2 /\ be -> IF signed THEN writeI16BE(d, v, off) ELSE writeU16BE(d, v, off)
    [] len = 3 /\ ~be -> IF signed THEN writeI24(d, v, off) ELSE writeU24(d, v, off)
    [] len = 3 /\ be -> IF signed THEN writeI24BE(d, v, off) ELSE writeU24BE(d, v, off)
    [] len = 4 /\ ~be -> IF signed THEN writeI32(d, v, off) ELSE writeU32(d, v, off)
    [] len = 4 /\ be -> IF signed THEN writeI32BE(d, v, off) ELSE writeU32BE(d, v, off)

\* readI8 .. readI48BE.
SignedReadOf(len, be, d, off) ==
  CASE len = 1 -> readI8(d, off)
    [] len = 2 -> IF be THEN readI16BE(d, off) ELSE readI16(d, off)
    [] len = 3 -> IF be THEN readI24BE(d, off) ELSE readI24(d, off)
    [] len = 4 -> IF be THEN readI32BE(d, off) ELSE readI32(d, off)
    [] len = 5 -> IF be THEN readI40BE(d, off) ELSE readI40(d, off)
    [] len = 6 -> IF be THEN readI48BE(d, off) ELSE readI48(d, off)

\* readU8 .. readU48BE.
UnsignedReadOf(len, be, d, off) ==
  CASE len = 1 -> readU8(d, off)
    [] len = 2 -> IF be THEN readU16BE(d, off) ELSE readU16(d, off)
    [] len = 3 -> IF be THEN readU24BE(d, off) ELSE readU24(d, off)
    [] len = 4 -> IF be THEN readU32BE(d, off) ELSE readU32(d, off)
    [] len = 5 -> IF be THEN readU40BE(d, off) ELSE readU40(d, off)
    [] len = 6 -> IF be THEN readU48BE(d, off) ELSE readU48(d, off)

InitFixed ==
  /\ calls = <<>>
  /\ NoObject
  /\ \/ dst \in {Blank(f) : f \in Fills} /\ num \in Int32s
     \/ dst \in SampleBufs /\ num = NoNum

\* A fixed-width write of num on the untouched buffer.
FixedWrite(signed, len, be, off) ==
  /\ calls = <<>>
  /\ num # NoNum
  /\ Shaped(len, be)
  /\ dst' = FixedWriteOf(signed, len, be, dst, num, off).dst
  /\ calls' = <<[fn |-> "write", signed |-> signed, len |-> len, be |-> be,
                 off |-> off, in |-> dst,
                 ret |-> FixedWriteOf(signed, len, be, dst, num, off).off]>>
  /\ UNCHANGED <<num, data, offset, stack, zeroCopy>>

\* A signed read of the untouched buffer, or of what the write just made
\* wrote, in its width and byte order.
FixedRead(len, be, off) ==
  /\ \/ calls = <<>> /\ num = NoNum
     \/ /\ Len(calls) = 1
        /\ calls[1].fn = "write"
        /\ len = calls[1].len /\ be = calls[1].be /\ off = calls[1].off
  /\ Shaped(len, be)
  /\ calls' = Append(calls,
       [fn |-> "read", signed |-> TRUE, len |-> len, be |-> be, off |-> off,
        in |-> dst, ret |-> SignedReadOf(len, be, dst, off)])
  /\ UNCHANGED <<dst, num, data, offset, stack, zeroCopy>>

NextFixed ==
  \/ \E signed \in BOOLEAN, len \in 1..4, be \in BOOLEAN, off \in 0..MaxOff :
       FixedWrite(signed, len, be, off)
  \/ \E len \in 1..6, be \in BOOLEAN, off \in 0..MaxOff : FixedRead(len, be, off)

SpecFixed == InitFixed /\ [][NextFixed]_vars

\* The number that the len bytes read without a sign stand for when the
\* highest of their bits is a sign.
SignExtended(u, len) ==
  IF Lt(u, Pow2(8 * len - 1)) THEN u ELSE Sub(u, Pow2(8 * len))

\* The len bytes of v modulo 2^(8 len), in the order they are stored in.
Packed(v, len, be) == IF be THEN Reverse(Wrap(v, len)) ELSE Wrap(v, len)

\* C27: a signed read of one to six bytes is the unsigned read of them with
\* the sign extended; a fixed-width write of one to four bytes stores
\* v modulo 2^(8 len) for -2^31 <= v < 2^32, the signed write and the
\* unsigned write alike.
C27_TwosComplement ==
  \A i \in DOMAIN calls :
    /\ calls[i].fn = "read" =>
         calls[i].ret = SignExtended(UnsignedReadOf(calls[i].len, calls[i].be,
                                                    calls[i].in, calls[i].off),
                                     calls[i].len)
    /\ calls[i].fn = "write" =>
         /\ calls[i].ret = calls[i].off + calls[i].len
         /\ SubSeq(dst, calls[i].off + 1, calls[i].off + calls[i].len)
              = Packed(num, calls[i].len, calls[i].be)
         /\ dst = FixedWriteOf(~calls[i].signed, calls[i].len, calls[i].be,
                               calls[i].in, num, calls[i].off).dst

\* writeU16 wrapped a negative number that does not fit sixteen bits, and
\* readI16 read the bytes back as a negative number.
C27_WrappedAndExtended ==
  /\ Len(calls) = 2
  /\ calls[1].fn = "write"
  /\ ~calls[1].signed
  /\ calls[1].len = 2
  /\ Lt(num, Neg(Pow2(16)))
  /\ calls[2].fn = "read"
  /\ Lt(calls[2].ret, N(0))
  /\ calls[2].ret # num

(***************************************************************************)
(* The saved span starts against the offset.                               *)
(***************************************************************************)

\* C28: every saved span start lies between 0 and the offset, and end()
\* never returns a negative count.
C28_SpansBehindOffset ==
  /\ \A i \in DOMAIN stack : 0 <= stack[i] /\ stack[i] <= offset
  /\ (Observed /\ calls[1].fn = "end" /\ ~calls[1].threw) => calls[1].ret >= 0

\* The part of the claim that holds: no saved span start is negative or
\* beyond the end of the data that was read when it was saved.
C28_SpansWithinData ==
  \A i \in DOMAIN stack : 0 <= stack[i] /\ (data # <<>> => stack[i] <= Len(data))

\* end() returned a negative count: the span it closed was started after
\* the offset that a seek backwards has left.
C28_NegativeCount ==
  /\ Observed
  /\ calls[1].fn = "end"
  /\ ~calls[1].threw
  /\ Top(calls[1].before) > calls[1].before.offset
  /\ calls[1].ret < 0
  /\ calls[1].ret = calls[1].before.offset - Top(calls[1].before)

(***************************************************************************)
(* How far the loops of the bit-packed varint go.                          *)
(***************************************************************************)

\* The bytes a call of readVarint2 has read: its size when it returns; when
\* it throws, the offset of the error is that of the byte the bounds check
\* refused, or the one after the byte that the number check refused.
BytesRead(c) == IF c.threw THEN c.ret.offset - c.off ELSE c.ret.size

\* readVarint2 stays inside the data and returns no size above most, and
\* writeVarint2 and sizeVarint2 of a number from 0 to 2^53-1 give a length
\* from 1 to 8.
LoopsEnd(c, most) ==
  /\ c.fn = "readVarint2" =>
       /\ BytesRead(c) <= most
       /\ c.off + BytesRead(c) <= Len(c.in)
       /\ ~c.threw => c.ret.size \in 1..8
  /\ (c.fn = "writeVarint2" /\ num # NoNum /\ Le(N(0), num) /\ Le(num, MAX_SAFE_INTEGER)) =>
       /\ ~c.threw
       /\ c.ret - c.off \in 1..8
       /\ sizeVarint2(num) \in 1..8

\* C29: readVarint2 returns or fails after at most eight bytes, never
\* returns a size above 8 and never reads at or past the end of the data;
\* writeVarint2 and sizeVarint2 end with a length from 1 to 8 for every
\* number from 0 to 2^53-1.
C29_EightBytesAtMost == \A i \in DOMAIN calls : LoopsEnd(calls[i], 8)

\* C29 with the bytes read before a failure counted as the code reads
\* them: at most nine, the ninth being the one the number check refuses.
C29_NineBytesAtMost == \A i \in DOMAIN calls : LoopsEnd(calls[i], 9)

\* readVarint2 read nine bytes and threw on the ninth.
C29_NinthByteRead ==
  /\ Len(calls) = 1
  /\ calls[1].fn = "readVarint2"
  /\ calls[1].threw
  /\ calls[1].ret.reason = "Number exceeds 2^53-1"
  /\ BytesRead(calls[1]) = 9

(***************************************************************************)
(* writeVarint2 on buffers with and without room for the number.           *)
(***************************************************************************)

\* Buffers of every length up to the longest run and one byte.
ShortBufs == {[i \in 1..n |-> f] : n \in 0..(MaxRun + 1), f \in Fills \cup {0}}

InitRoom ==
  /\ calls = <<>>
  /\ NoObject
  /\ dst \in ShortBufs
  /\ num \in VarintNums

NextRoom == \E off \in 0..MaxOff : Write("writeVarint2", off, 0)

SpecRoom == InitRoom /\ [][NextRoom]_vars

\* C30: writeVarint2 writes the sizeVarint2(num) bytes of num from off on
\* and returns the offset after them; with fewer bytes than that after off
\* it throws the bounds EncodingError with the offset off and leaves the
\* buffer as it was.
C30_WritesSizeOrNothing ==
  \A i \in DOMAIN calls :
    calls[i].fn = "writeVarint2" =>
      IF calls[i].off + sizeVarint2(num) <= Len(calls[i].in)
      THEN /\ ~calls[i].threw
           /\ calls[i].ret = calls[i].off + sizeVarint2(num)
           /\ Modified(calls[i])
                \subseteq calls[i].off..(calls[i].off + sizeVarint2(num) - 1)
           /\ StoodFor(SubSeq(dst, 1, calls[i].ret), calls[i].off, N(0)) = num
      ELSE /\ calls[i].threw
           /\ calls[i].ret = EncodingError(calls[i].off, "Out of bounds read")
           /\ dst = calls[i].in

\* writeVarint2 of a number of several bytes threw on a buffer that has one
\* byte less than the number needs after off.
C30_OneByteShort ==
  /\ Len(calls) = 1
  /\ calls[1].fn = "writeVarint2"
  /\ sizeVarint2(num) > 1
  /\ Len(calls[1].in) - calls[1].off = sizeVarint2(num) - 1
  /\ calls[1].threw
  /\ calls[1].ret.offset = calls[1].off
  /\ dst = calls[1].in

=============================================================================
